---- MODULE Spec2Model ----
(***************************************************************************)
(* Verification model of adgent-sdk: the playback orchestrator (AdPlayer), *)
(* the tracking dispatcher (AdTracker), the macro codec (replaceMacros)    *)
(* and the wrapper resolver (VASTParser).                                  *)
(*                                                                         *)
(* Two specifications live in this module:                                 *)
(*   Spec         - one AdPlayer session against a host video element      *)
(*   SpecResolver - one VASTParser.parse call against a document transport *)
(***************************************************************************)
EXTENDS Integers, Sequences, FiniteSets, TLC

(***************************************************************************)
(* Bounds of the model                                                     *)
(***************************************************************************)
\* observation counters saturate here: a value of CountCap reads "CountCap or more"
CountCap == 2
\* play() promises that may be pending on the video element at one time
MaxPending == 2
\* destroy() calls the page makes itself (skip() makes its own)
MaxDestroyCalls == 1
\* largest maxWrapperDepth configured for the parser
MaxDepthBound == 3
\* Ad elements in one fetched document
MaxAds == 2
\* fetchAndParse calls made during one parse()
MaxCalls == 4
\* media files in one list given to selectBestMediaFile
MaxFiles == 2
\* tokens in one URL given to replaceMacros
MaxTokens == 2
\* creatives in one Ad given to mergeWrapperTracking
MaxCreatives == 2

(***************************************************************************)
(* Enumerations (src/index.ts)                                             *)
(***************************************************************************)
Idle == "idle"
Loading == "loading"
Ready == "ready"
Playing == "playing"
Paused == "paused"
Completed == "completed"
Error == "error"
WaitingForInteraction == "waiting_for_interaction"

PlaybackStatus ==
  {Idle, Loading, Ready, Playing, Paused, Completed, Error, WaitingForInteraction}

GENERAL_WRAPPER_ERROR == 300
NO_VAST_RESPONSE == 303
GENERAL_LINEAR_ERROR == 400
FILE_NOT_FOUND == 401
MEDIA_NOT_SUPPORTED == 403
UNDEFINED_ERROR == 900

VASTErrorCode == {100, 101, 102, 300, 301, 302, 303, 400, 401, 402, 403, 600, 900}

\* the remote-control actions handleKeyAction switches on
KeyAction == {"enter", "back", "play", "pause", "left", "right", "up", "down"}

\* VASTParser constructor: config.maxWrapperDepth ?? 5
DefaultMaxWrapperDepth == 5

\* AdPlayer.ts DEFAULT_CONFIG.targetBitrate
TargetBitrate == 2500

\* an absent optional number (skipOffset, a MacroContext field)
Undefined == -1

\* an absent optional string (MacroContext.assetUri, MacroContext.adType)
Absent == "undefined"

(***************************************************************************)
(* Small helpers                                                           *)
(***************************************************************************)
Sat(n) == IF n < CountCap THEN n + 1 ELSE CountCap

Range(s) == {s[i] : i \in DOMAIN s}

RECURSIVE Flatten(_)
Flatten(ss) == IF ss = <<>> THEN <<>> ELSE Head(ss) \o Flatten(Tail(ss))

Max(a, b) == IF a >= b THEN a ELSE b

Abs(n) == IF n < 0 THEN 0 - n ELSE n

(***************************************************************************)
(* Macro codec: src/index.ts replaceMacros / formatPlayhead.               *)
(* A URL is a sequence of string tokens; a macro is a token of its own.    *)
(***************************************************************************)
TwoDigits(n) == IF n < 10 THEN "0" \o ToString(n) ELSE ToString(n)

ThreeDigits(n) ==
  IF n < 10 THEN "00" \o ToString(n)
  ELSE IF n < 100 THEN "0" \o ToString(n) ELSE ToString(n)

\* formatPlayhead rounding the milliseconds to the nearest instead of flooring them
formatPlayheadOf_Rounds(whole, micros) ==
  LET hours == whole \div 3600
      minutes == (whole % 3600) \div 60
      secs == whole % 60
      ms == (micros + 500) \div 1000
  IN  TwoDigits(hours) \o ":" \o TwoDigits(minutes) \o ":" \o TwoDigits(secs)
        \o "." \o ThreeDigits(ms)

\* formatPlayhead for the number whole + micros / 1000000 (0 <= micros < 1000000):
\* seconds % 1 is the fractional part, Math.floor((seconds % 1) * 1000) its milliseconds
formatPlayheadOf(whole, micros) ==
  LET hours == whole \div 3600
      minutes == (whole % 3600) \div 60
      secs == whole % 60
      ms == micros \div 1000
  IN  TwoDigits(hours) \o ":" \o TwoDigits(minutes) \o ":" \o TwoDigits(secs)
        \o "." \o ThreeDigits(ms)

\* formatPlayhead for a whole number of seconds
formatPlayhead(seconds) == formatPlayheadOf(seconds, 0)

EmptyMacroContext ==
  [assetUri |-> Absent, contentPlayhead |-> Undefined, adPlayhead |-> Undefined,
   errorCode |-> Undefined, breakPosition |-> Undefined, adType |-> Absent]

\* replaceMacros testing the numeric fields for truthiness as it does the string fields
replaceToken_NumbersTruthy(tok, context) ==
  CASE tok = "[TIMESTAMP]" -> "<now>"
    [] tok = "[CACHEBUSTING]" -> "<random>"
    [] tok = "[ASSETURI]" /\ context.assetUri \notin {Absent, ""} ->
         "enc(" \o context.assetUri \o ")"
    [] tok = "[CONTENTPLAYHEAD]" /\ context.contentPlayhead \notin {Undefined, 0} ->
         formatPlayhead(context.contentPlayhead)
    [] tok = "[ADPLAYHEAD]" /\ context.adPlayhead \notin {Undefined, 0} ->
         formatPlayhead(context.adPlayhead)
    [] tok = "[ERRORCODE]" /\ context.errorCode \notin {Undefined, 0} ->
         ToString(context.errorCode)
    [] tok = "[BREAKPOSITION]" /\ context.breakPosition \notin {Undefined, 0} ->
         ToString(context.breakPosition)
    [] tok = "[ADTYPE]" /\ context.adType \notin {Absent, ""} -> context.adType
    [] OTHER -> tok

replaceToken(tok, context) ==
  CASE tok = "[TIMESTAMP]" -> "<now>"
    [] tok = "[CACHEBUSTING]" -> "<random>"
    [] tok = "[ASSETURI]" /\ context.assetUri \notin {Absent, ""} ->
         "enc(" \o context.assetUri \o ")"
    [] tok = "[CONTENTPLAYHEAD]" /\ context.contentPlayhead # Undefined ->
         formatPlayhead(context.contentPlayhead)
    [] tok = "[ADPLAYHEAD]" /\ context.adPlayhead # Undefined ->
         formatPlayhead(context.adPlayhead)
    [] tok = "[ERRORCODE]" /\ context.errorCode # Undefined -> ToString(context.errorCode)
    [] tok = "[BREAKPOSITION]" /\ context.breakPosition # Undefined ->
         ToString(context.breakPosition)
    [] tok = "[ADTYPE]" /\ context.adType \notin {Absent, ""} -> context.adType
    [] OTHER -> tok

replaceMacros(url, context) == [i \in DOMAIN url |-> replaceToken(url[i], context)]

(***************************************************************************)
(* VAST data (src/index.ts types) and the read-only queries of VASTParser  *)
(***************************************************************************)
NoWrapper == [present |-> FALSE, vastAdTagURI |-> "", fallbackOnNoAd |-> FALSE]

NoLinear == [skipOffset |-> Undefined, mediaFiles |-> <<>>, trackingEvents |-> <<>>]

Tracking(ev, u) == [event |-> ev, url |-> u]

\* VASTParser.selectBestMediaFile
\* mf.type.includes('mp4') || mf.type.includes('video/mp4'), over the types of the model
IsMp4(mf) == mf.type \in {"video/mp4", "application/mp4"}

\* Math.abs((mf.bitrate || 0) - targetBitrate) + (mf.height > 1080 ? 10000 : 0)
MediaScore(mf, targetBitrate) ==
  Abs((IF mf.bitrate = Undefined THEN 0 ELSE mf.bitrate) - targetBitrate)
    + (IF mf.height > 1080 THEN 10000 ELSE 0)

\* [...candidates].sort((a, b) => aDiff - bDiff): the sort is stable, so a file goes behind
\* every file already placed whose score is not greater
RECURSIVE sortByScore(_, _, _)
sortByScore(sorted, rest, targetBitrate) ==
  IF rest = <<>> THEN sorted
  ELSE
    LET mf == Head(rest)
        ahead == Cardinality({i \in DOMAIN sorted :
                   MediaScore(sorted[i], targetBitrate) <= MediaScore(mf, targetBitrate)})
    IN  sortByScore(SubSeq(sorted, 1, ahead) \o <<mf>> \o SubSeq(sorted, ahead + 1, Len(sorted)),
                    Tail(rest), targetBitrate)

NoMediaFile == [url |-> "", type |-> "", width |-> 0, height |-> 0, bitrate |-> 0]

\* selectBestMediaFile taking every file as a candidate
selectBestMediaFile_NoMp4Filter(mediaFiles, targetBitrate) ==
  IF Len(mediaFiles) = 0 THEN NoMediaFile
  ELSE sortByScore(<<>>, mediaFiles, targetBitrate)[1]

selectBestMediaFile(mediaFiles, targetBitrate) ==
  IF Len(mediaFiles) = 0 THEN NoMediaFile
  ELSE
    LET mp4Files == SelectSeq(mediaFiles, IsMp4)
        candidates == IF Len(mp4Files) > 0 THEN mp4Files ELSE mediaFiles
        sorted == sortByScore(<<>>, candidates, targetBitrate)
    IN  sorted[1]

\* VASTParser.aggregateTrackingEvents
RECURSIVE CreativeTrackingEvents(_)
CreativeTrackingEvents(creatives) ==
  IF creatives = <<>> THEN <<>>
  ELSE (IF Head(creatives).isLinear THEN Head(creatives).linear.trackingEvents ELSE <<>>)
         \o CreativeTrackingEvents(Tail(creatives))

aggregateTrackingEvents(adList) ==
  Flatten([i \in DOMAIN adList |-> CreativeTrackingEvents(adList[i].creatives)])

\* VASTParser.aggregateImpressions
aggregateImpressions(adList) == Flatten([i \in DOMAIN adList |-> adList[i].impressions])

\* AdPlayer.getFirstLinearCreative
AllCreatives(adList) == Flatten([i \in DOMAIN adList |-> adList[i].creatives])

HasLinearCreative(adList) == \E i \in DOMAIN AllCreatives(adList) : AllCreatives(adList)[i].isLinear

getFirstLinearCreative(adList) ==
  IF HasLinearCreative(adList)
  THEN LET cs == AllCreatives(adList)
           k == CHOOSE i \in DOMAIN cs : cs[i].isLinear /\ \A j \in 1..(i - 1) : ~cs[j].isLinear
       IN  cs[k].linear
  ELSE NoLinear

(***************************************************************************)
(* State of one AdPlayer session                                           *)
(***************************************************************************)
VARIABLES
  state,           \* AdPlayer.state (AdPlayerState)
  ads,             \* AdPlayer.ads
  elems,           \* videoElement, overlayElement, skipButtonElement, focusTrap, boundKeyHandler
  tracker,         \* AdPlayer.tracker (AdTracker) or absent
  quartilesFired,  \* AdPlayer.quartilesFired
  listeners,       \* AdPlayer.listeners
  cfg,             \* AdPlayer.config (the options that vary)
  pc,              \* where init() stands
  container,       \* what the player has put into the document
  host,            \* the video element as the host runtime sees it
  obs              \* what the outside has observed: pixels, events, callbacks

playerVars ==
  <<state, ads, elems, tracker, quartilesFired, listeners, cfg, pc, container, host, obs>>

(***************************************************************************)
(* State of one VASTParser.parse call                                      *)
(***************************************************************************)
VARIABLES
  parserConfig,    \* VASTParser.config
  frames,          \* the fetchAndParse calls made so far, by position in the wrapper tree
  fetches,         \* depths at which config.fetchFn has been called
  parseResult,     \* what parse() produced, once it has
  rpc              \* position of the parse() call: "idle", "resolving", "done"

resolverVars == <<parserConfig, frames, fetches, parseResult, rpc>>

(***************************************************************************)
(* A call of one of the stateless functions (selectBestMediaFile,          *)
(* replaceMacros, formatPlayhead)                                          *)
(***************************************************************************)
VARIABLES
  fnCall           \* the last call: function, arguments, result

NoCall == [fn |-> "none", args |-> <<>>, result |-> <<>>]

(***************************************************************************)
(* The platform adapter and the transports behind it                       *)
(***************************************************************************)
VARIABLES
  platform         \* capabilities advertised, and what sendBeacon and fetch do when called

\* a runtime with a working beacon
BeaconPlatform ==
  [capabilities |-> [sendBeacon |-> TRUE, fetchKeepalive |-> TRUE],
   sendBeacon |-> "true", fetch |-> "resolves"]

\* sendBeacon returns true or false or throws; fetch returns a promise that resolves or
\* rejects, or throws; a transport that is not advertised is never called
Platforms ==
  {q \in [capabilities : [sendBeacon : BOOLEAN, fetchKeepalive : BOOLEAN],
          sendBeacon : {"true", "false", "throws"},
          fetch : {"resolves", "rejects", "throws"}] :
     /\ ~q.capabilities.sendBeacon => q.sendBeacon = "true"
     /\ ~q.capabilities.fetchKeepalive => q.fetch = "resolves"}

\* the listeners a page may register with on(), in the order it registers them (a Set
\* is iterated in insertion order)
ListenerOrder == <<"L1", "L2">>

Listeners == {ListenerOrder[i] : i \in DOMAIN ListenerOrder}

\* the listeners that throw whenever they are called
Throwing == {"L1"}

\* duration the host reports for the media, in seconds
MediaDuration == 4

NoError == [code |-> 0, message |-> "null"]

NoTracker ==
  [present |-> FALSE, trackingEvents |-> <<>>, firedEvents |-> {},
   macroContext |-> EmptyMacroContext]

World ==
  [state |-> state, ads |-> ads, elems |-> elems, tracker |-> tracker,
   quartilesFired |-> quartilesFired, listeners |-> listeners, cfg |-> cfg,
   container |-> container, host |-> host, obs |-> obs, platform |-> platform]

\* every handler starts with an empty record of its own effects
Begin == [World EXCEPT !.obs.trace = <<>>, !.obs.sent = <<>>, !.obs.raised = FALSE]

(***************************************************************************)
(* Observation: counted bags with saturating counts                        *)
(***************************************************************************)
Count(bag, k) == IF k \in DOMAIN bag THEN bag[k] ELSE 0

AddTo(bag, k) ==
  IF k \in DOMAIN bag THEN [bag EXCEPT ![k] = Sat(@)] ELSE bag @@ (k :> 1)

Effect(op, a, u) == [op |-> op, a |-> a, u |-> u]

\* one call of a transport: which, for what URL, and what the call did
Sent(via, url, did) == [via |-> via, url |-> url, did |-> did]

(***************************************************************************)
(* The host video element (HTMLMediaElement), as far as the player sees it *)
(***************************************************************************)
NoHost ==
  [exists |-> FALSE, paused |-> TRUE, meta |-> FALSE, error |-> FALSE,
   ended |-> FALSE, time |-> 0, queue |-> <<>>, pending |-> <<>>]

FailPending(pending) == [i \in DOMAIN pending |-> [pending[i] EXCEPT !.ok = FALSE]]

\* video.play(): an allowed call un-pauses the element; the promise is kept while code
\* awaits it (handleKeyAction drops the promise of its play() call)
Awaited(pending, tag, ok) ==
  IF tag = "key" THEN pending ELSE Append(pending, [tag |-> tag, ok |-> ok])

hostPlay(h, tag, allowed) ==
  IF ~allowed \/ h.error
  THEN [h EXCEPT !.pending = Awaited(@, tag, FALSE)]
  ELSE [h EXCEPT !.pending = Awaited(@, tag, TRUE),
                 !.paused = FALSE,
                 !.ended = FALSE,
                 !.time = IF h.ended THEN 0 ELSE @,
                 !.queue = IF h.paused THEN Append(@, "play") ELSE @]

\* video.pause(), and the pause the host performs when the element leaves the document
hostPause(h) ==
  IF h.paused THEN h
  ELSE [h EXCEPT !.paused = TRUE,
                 !.queue = Append(@, "pause"),
                 !.pending = FailPending(@)]

(***************************************************************************)
(* AdTracker (src/core/AdTracker.ts)                                       *)
(***************************************************************************)
\* AdTracker.groupEventsByType: the endpoints registered for one event type, in order
EventsOfType(events, eventType) == SelectSeq(events, LAMBDA e : e.event = eventType)

groupEventsByType(events) ==
  [t \in {events[i].event : i \in DOMAIN events} |-> EventsOfType(events, t)]

\* new AdTracker(events)
newAdTracker(events) ==
  [present |-> TRUE, trackingEvents |-> groupEventsByType(events), firedEvents |-> {},
   macroContext |-> EmptyMacroContext]

\* AdTracker.updateMacroContext for the two fields the player sets
updateAssetUri(w, uri) ==
  IF w.tracker.present THEN [w EXCEPT !.tracker.macroContext.assetUri = uri] ELSE w

updateAdPlayhead(w, t) ==
  IF w.tracker.present THEN [w EXCEPT !.tracker.macroContext.adPlayhead = t] ELSE w

\* the body of firePixel's try block: the transports called for one URL, in order
callTransports(p, url) ==
  IF p.capabilities.sendBeacon /\ p.sendBeacon # "false"
  THEN <<Sent("sendBeacon", url, p.sendBeacon)>>
  ELSE (IF p.capabilities.sendBeacon THEN <<Sent("sendBeacon", url, "false")>> ELSE <<>>)
       \o (IF p.capabilities.fetchKeepalive
           THEN <<Sent("fetch", url, p.fetch)>>
           ELSE <<Sent("image", url, "loads")>>)

\* firePixel without its catch block and without the catch on the promise
firePixel_NoCatch(w, kind, url) ==
  LET called == callTransports(w.platform, url)
  IN  [w EXCEPT !.obs.pixels = AddTo(@, [kind |-> kind, url |-> url]),
                !.obs.trace = Append(@, Effect("pixel", kind, url)),
                !.obs.sent = @ \o called,
                !.obs.raised = @ \/ called[Len(called)].did \in {"throws", "rejects"}]

\* AdTracker.firePixel: what a transport throws is caught and logged, a rejected
\* promise is caught and dropped, so nothing is raised to the caller
firePixel(w, kind, url) ==
  [w EXCEPT !.obs.pixels = AddTo(@, [kind |-> kind, url |-> url]),
            !.obs.trace = Append(@, Effect("pixel", kind, url)),
            !.obs.sent = @ \o callTransports(w.platform, url)]

\* track never recording what it fired
RECURSIVE trackEach_NeverRecords(_, _, _, _)
trackEach_NeverRecords(w, events, eventType, once) ==
  IF events = <<>> THEN w
  ELSE
    LET event == Head(events)
        eventKey == <<eventType, event.url>>
    IN  IF once /\ eventKey \in w.tracker.firedEvents
        THEN trackEach_NeverRecords(w, Tail(events), eventType, once)
        ELSE trackEach_NeverRecords(
               firePixel(w, eventType, replaceMacros(event.url, w.tracker.macroContext)),
               Tail(events), eventType, once)

\* track consulting and updating the fired-set whatever the once flag says
RECURSIVE trackEach_AlwaysOnce(_, _, _, _)
trackEach_AlwaysOnce(w, events, eventType, once) ==
  IF events = <<>> THEN w
  ELSE
    LET event == Head(events)
        eventKey == <<eventType, event.url>>
    IN  IF eventKey \in w.tracker.firedEvents
        THEN trackEach_AlwaysOnce(w, Tail(events), eventType, once)
        ELSE
          LET url == replaceMacros(event.url, w.tracker.macroContext)
              w1 == firePixel(w, eventType, url)
          IN  trackEach_AlwaysOnce([w1 EXCEPT !.tracker.firedEvents = @ \cup {eventKey}],
                                   Tail(events), eventType, once)

RECURSIVE trackEach(_, _, _, _)
trackEach(w, events, eventType, once) ==
  IF events = <<>> THEN w
  ELSE
    LET event == Head(events)
        eventKey == <<eventType, event.url>>
    IN  IF once /\ eventKey \in w.tracker.firedEvents
        THEN trackEach(w, Tail(events), eventType, once)
        ELSE
          LET url == replaceMacros(event.url, w.tracker.macroContext)
              w1 == firePixel(w, eventType, url)
              w2 == IF once
                    THEN [w1 EXCEPT !.tracker.firedEvents = @ \cup {eventKey}]
                    ELSE w1
          IN  trackEach(w2, Tail(events), eventType, once)

\* AdTracker.track; this.tracker?.track(...) does nothing without a tracker
track(w, eventType, once) ==
  IF ~w.tracker.present THEN w
  ELSE IF eventType \notin DOMAIN w.tracker.trackingEvents THEN w
  ELSE trackEach(w, w.tracker.trackingEvents[eventType], eventType, once)

RECURSIVE fireEach(_, _, _, _)
fireEach(w, kind, urls, context) ==
  IF urls = <<>> THEN w
  ELSE fireEach(firePixel(w, kind, replaceMacros(Head(urls), context)),
                kind, Tail(urls), context)

\* AdTracker.fireImpressions
fireImpressions(w, impressionUrls) ==
  IF ~w.tracker.present THEN w
  ELSE fireEach(w, "impression", impressionUrls, w.tracker.macroContext)

\* fireError leaving the error code in the tracker's macro context
fireError_KeepsCode(w, errorUrls, errorCode) ==
  IF ~w.tracker.present THEN w
  ELSE LET kept == [w EXCEPT !.tracker.macroContext.errorCode = errorCode]
       IN  fireEach(kept, "error", errorUrls, kept.tracker.macroContext)

\* AdTracker.fireError
fireError(w, errorUrls, errorCode) ==
  IF ~w.tracker.present THEN w
  ELSE fireEach(w, "error", errorUrls,
                [w.tracker.macroContext EXCEPT !.errorCode = errorCode])

\* reset clearing the macro context with the fired-set
resetTracker_ClearsContext(w) ==
  IF w.tracker.present
  THEN [w EXCEPT !.tracker.firedEvents = {}, !.tracker.macroContext = EmptyMacroContext]
  ELSE w

\* AdTracker.reset
resetTracker(w) ==
  IF w.tracker.present THEN [w EXCEPT !.tracker.firedEvents = {}] ELSE w

(***************************************************************************)
(* AdPlayer (src/core/AdPlayer.ts): the handlers, as functions of the world *)
(***************************************************************************)
\* AdPlayer.emit: every registered listener receives the event
\* emit without the try/catch around the listener call: the exception of a throwing
\* listener ends the loop
RECURSIVE deliverTo_NoCatch(_, _, _)
deliverTo_NoCatch(heard, ls, type) ==
  IF ls = {} THEN heard
  ELSE LET i == CHOOSE k \in DOMAIN ListenerOrder :
                  /\ ListenerOrder[k] \in ls
                  /\ \A j \in 1..(k - 1) : ListenerOrder[j] \notin ls
           l == ListenerOrder[i]
       IN  IF l \in Throwing THEN AddTo(heard, <<l, type>>)
           ELSE deliverTo_NoCatch(AddTo(heard, <<l, type>>), ls \ {l}, type)

\* for (const listener of this.listeners) try { listener(event) } catch { log }: a
\* listener that throws has been called, and the loop goes on with the next one
RECURSIVE deliverTo(_, _, _)
deliverTo(heard, ls, type) ==
  IF ls = {} THEN heard
  ELSE LET i == CHOOSE k \in DOMAIN ListenerOrder :
                  /\ ListenerOrder[k] \in ls
                  /\ \A j \in 1..(k - 1) : ListenerOrder[j] \notin ls
           l == ListenerOrder[i]
       IN  deliverTo(AddTo(heard, <<l, type>>), ls \ {l}, type)

\* the events and callbacks whose deliveries are counted over the whole session; the
\* others (progress, quartile, pause, mute, unmute) are recorded per handler only
CountedOverSession ==
  {"start", "complete", "skip", "error", "destroy", "loaded", "resume",
   "onStart", "onComplete", "onSkip", "onError"}

emit(w, type) ==
  [w EXCEPT !.obs.heard = IF type \in CountedOverSession
                          THEN deliverTo(@, w.listeners, type) ELSE @,
            !.obs.trace = Append(@, Effect("emit", type, <<>>))]

\* this.config.onX?.()
callback(w, name) ==
  [w EXCEPT !.obs.callbacks = IF name \in CountedOverSession THEN AddTo(@, name) ELSE @,
            !.obs.trace = Append(@, Effect("callback", name, <<>>))]

\* AdPlayer.createError
createError(code, message) == [code |-> code, message |-> message]

\* the error URLs handleError collects: for (const ad of this.ads) errorUrls.push(...ad.errors)
collectErrorUrls(adList) == Flatten([i \in DOMAIN adList |-> adList[i].errors])

\* AdPlayer.handleError
handleError(w, error) ==
  LET w1 == [w EXCEPT !.state.status = Error, !.state.error = error]
      w2 == fireError(w1, collectErrorUrls(w1.ads), error.code)
      w3 == emit(w2, "error")
  IN  callback(w3, "onError")

\* the skip offset in force: this.config.skipOffset ?? linear?.skipOffset
skipOffsetInForce(w) ==
  IF w.cfg.skipOffset # Undefined THEN w.cfg.skipOffset
  ELSE getFirstLinearCreative(w.ads).skipOffset

\* AdPlayer.setupSkipButton
setupSkipButton(w) ==
  LET skipOffset == skipOffsetInForce(w)
  IN  IF skipOffset = Undefined \/ skipOffset <= 0 THEN w
      ELSE [w EXCEPT !.state.skipCountdown = skipOffset,
                     !.state.canSkip = FALSE,
                     !.container.skipButtons = Sat(@),
                     !.elems.skipButtonElement = TRUE]

\* updateSkipCountdown without the floor at 0
updateSkipCountdown_NoFloor(w, currentTime) ==
  LET skipOffset == skipOffsetInForce(w)
  IN  IF skipOffset = Undefined \/ skipOffset = 0 \/ ~w.elems.skipButtonElement THEN w
      ELSE LET remaining == skipOffset - currentTime
               w1 == [w EXCEPT !.state.skipCountdown = remaining]
           IN  IF remaining <= 0 /\ ~w1.state.canSkip
               THEN [w1 EXCEPT !.state.canSkip = TRUE]
               ELSE w1

\* AdPlayer.updateSkipCountdown
updateSkipCountdown(w, currentTime) ==
  LET skipOffset == skipOffsetInForce(w)
  IN  IF skipOffset = Undefined \/ skipOffset = 0 \/ ~w.elems.skipButtonElement THEN w
      ELSE LET remaining == Max(0, skipOffset - currentTime)
               w1 == [w EXCEPT !.state.skipCountdown = remaining]
           IN  IF remaining <= 0 /\ ~w1.state.canSkip
               THEN [w1 EXCEPT !.state.canSkip = TRUE]
               ELSE w1

\* handlePlaybackStart tracking start without the once flag
handlePlaybackStart_StartNotOnce(w) ==
  LET w1 == [w EXCEPT !.state.status = Playing]
      w2 == emit(w1, "start")
      w3 == callback(w2, "onStart")
      w4 == fireImpressions(w3, aggregateImpressions(w3.ads))
      w5 == track(w4, "start", FALSE)
      w6 == track(w5, "creativeView", TRUE)
  IN  setupSkipButton(w6)

\* AdPlayer.handlePlaybackStart
handlePlaybackStart(w) ==
  LET w1 == [w EXCEPT !.state.status = Playing]
      w2 == emit(w1, "start")
      w3 == callback(w2, "onStart")
      w4 == fireImpressions(w3, aggregateImpressions(w3.ads))
      w5 == track(w4, "start", TRUE)
      w6 == track(w5, "creativeView", TRUE)
  IN  setupSkipButton(w6)

\* AdPlayer.removeOverlay
removeOverlay(w) ==
  IF w.elems.overlayElement
  THEN [w EXCEPT !.elems.overlayElement = FALSE, !.container.overlays = @ - 1]
  ELSE w

\* AdPlayer.showStartOverlay
showStartOverlay(w) ==
  [w EXCEPT !.state.status = WaitingForInteraction,
            !.elems.overlayElement = TRUE,
            !.container.overlays = Sat(@)]

\* AdPlayer.onStartClick up to its await; the continuation is PlaySettles
onStartClick(w, allowed) ==
  LET w1 == removeOverlay(w)
  IN  IF w1.elems.videoElement
      THEN [w1 EXCEPT !.host = hostPlay(@, "click", allowed)]
      ELSE w1

\* fireQuartileEvents firing a threshold only once the percentage is above it
RECURSIVE fireQuartilesFrom_StrictlyAbove(_, _, _, _)
fireQuartilesFrom_StrictlyAbove(w, quartiles, currentTime, duration) ==
  IF quartiles = <<>> THEN w
  ELSE
    LET q == Head(quartiles)
    IN  IF currentTime * 100 > q.threshold * duration /\ q.threshold \notin w.quartilesFired
        THEN LET w1 == [w EXCEPT !.quartilesFired = @ \cup {q.threshold}]
                 w2 == track(w1, q.event, TRUE)
                 w3 == emit(w2, "quartile")
             IN  fireQuartilesFrom_StrictlyAbove(w3, Tail(quartiles), currentTime, duration)
        ELSE fireQuartilesFrom_StrictlyAbove(w, Tail(quartiles), currentTime, duration)

\* AdPlayer.fireQuartileEvents; percentage >= threshold is currentTime * 100 >= threshold * duration
RECURSIVE fireQuartilesFrom(_, _, _, _)
fireQuartilesFrom(w, quartiles, currentTime, duration) ==
  IF quartiles = <<>> THEN w
  ELSE
    LET q == Head(quartiles)
    IN  IF currentTime * 100 >= q.threshold * duration /\ q.threshold \notin w.quartilesFired
        THEN LET w1 == [w EXCEPT !.quartilesFired = @ \cup {q.threshold}]
                 w2 == track(w1, q.event, TRUE)
                 w3 == emit(w2, "quartile")
             IN  fireQuartilesFrom(w3, Tail(quartiles), currentTime, duration)
        ELSE fireQuartilesFrom(w, Tail(quartiles), currentTime, duration)

fireQuartileEvents(w, currentTime, duration) ==
  fireQuartilesFrom(w,
    << [threshold |-> 25, event |-> "firstQuartile"],
       [threshold |-> 50, event |-> "midpoint"],
       [threshold |-> 75, event |-> "thirdQuartile"] >>,
    currentTime, duration)

\* AdPlayer.handleTimeUpdate; video.duration is NaN until the metadata is loaded
handleTimeUpdate(w) ==
  IF ~w.host.meta THEN w
  ELSE
    LET currentTime == w.host.time
        duration == MediaDuration
        w1 == [w EXCEPT !.state.currentTime = currentTime, !.state.duration = duration]
        w2 == updateSkipCountdown(w1, currentTime)
        w3 == updateAdPlayhead(w2, currentTime)
        w4 == emit(w3, "progress")
        w5 == callback(w4, "onProgress")
    IN  fireQuartileEvents(w5, currentTime, duration)

\* handleComplete tracking complete without the once flag
handleComplete_CompleteNotOnce(w) ==
  LET w1 == [w EXCEPT !.state.status = Completed]
      w2 == track(w1, "complete", FALSE)
      w3 == emit(w2, "complete")
  IN  callback(w3, "onComplete")

\* AdPlayer.handleComplete
handleComplete(w) ==
  LET w1 == [w EXCEPT !.state.status = Completed]
      w2 == track(w1, "complete", TRUE)
      w3 == emit(w2, "complete")
  IN  callback(w3, "onComplete")

\* destroy emitting the destroy event before it clears the listener registry
destroy_EmitFirst(w) ==
  LET w1 == [w EXCEPT
               !.container.keyListeners = IF w.elems.boundKeyHandler THEN @ - 1 ELSE @,
               !.container.videos = IF w.elems.videoElement THEN @ - 1 ELSE @,
               !.container.overlays = IF w.elems.overlayElement THEN @ - 1 ELSE @,
               !.container.skipButtons = IF w.elems.skipButtonElement THEN @ - 1 ELSE @,
               !.container.focusTraps = IF w.elems.focusTrap THEN @ - 1 ELSE @,
               !.host = IF w.elems.videoElement THEN hostPause(@) ELSE @,
               !.elems = [videoElement |-> FALSE, overlayElement |-> FALSE,
                          skipButtonElement |-> FALSE, focusTrap |-> FALSE,
                          boundKeyHandler |-> FALSE],
               !.obs.destroys = Sat(@)]
      w2 == emit(resetTracker(w1), "destroy")
  IN  [w2 EXCEPT !.quartilesFired = {}, !.listeners = {}, !.ads = <<>>]

\* AdPlayer.destroy
destroy(w) ==
  LET w1 == [w EXCEPT
               !.container.keyListeners = IF w.elems.boundKeyHandler THEN @ - 1 ELSE @,
               !.container.videos = IF w.elems.videoElement THEN @ - 1 ELSE @,
               !.container.overlays = IF w.elems.overlayElement THEN @ - 1 ELSE @,
               !.container.skipButtons = IF w.elems.skipButtonElement THEN @ - 1 ELSE @,
               !.container.focusTraps = IF w.elems.focusTrap THEN @ - 1 ELSE @,
               !.host = IF w.elems.videoElement THEN hostPause(@) ELSE @,
               !.elems = [videoElement |-> FALSE, overlayElement |-> FALSE,
                          skipButtonElement |-> FALSE, focusTrap |-> FALSE,
                          boundKeyHandler |-> FALSE],
               !.obs.destroys = Sat(@)]
      w2 == resetTracker(w1)
      w3 == [w2 EXCEPT !.quartilesFired = {}, !.listeners = {}, !.ads = <<>>]
  IN  emit(w3, "destroy")

\* skip without the canSkip guard
skip_NoGuard(w) ==
  LET w1 == track(w, "skip", TRUE)
      w2 == emit(w1, "skip")
      w3 == callback(w2, "onSkip")
  IN  destroy(w3)

\* AdPlayer.skip
skip(w) ==
  IF ~w.state.canSkip THEN w
  ELSE LET w1 == track(w, "skip", TRUE)
           w2 == emit(w1, "skip")
           w3 == callback(w2, "onSkip")
       IN  destroy(w3)

\* AdPlayer.handleKeyAction
handleKeyAction(w, action, allowed) ==
  CASE action = "enter" ->
         IF w.state.status = WaitingForInteraction THEN onStartClick(w, allowed)
         ELSE IF w.state.canSkip THEN skip(w)
         ELSE w
    [] action = "play" ->
         IF w.elems.videoElement THEN [w EXCEPT !.host = hostPlay(@, "key", allowed)] ELSE w
    [] action = "pause" ->
         IF w.elems.videoElement THEN [w EXCEPT !.host = hostPause(@)] ELSE w
    [] OTHER -> w

\* AdPlayer.unmute
unmute(w) ==
  IF ~w.elems.videoElement THEN w
  ELSE emit(track([w EXCEPT !.state.muted = FALSE], "unmute", TRUE), "unmute")

\* AdPlayer.mute
mute(w) ==
  IF ~w.elems.videoElement THEN w
  ELSE emit(track([w EXCEPT !.state.muted = TRUE], "mute", TRUE), "mute")

\* AdPlayer.createVideoElement: the element is appended and starts loading its src
createVideoElement(w, mediaFile) ==
  [w EXCEPT !.elems.videoElement = TRUE,
            !.container.videos = Sat(@),
            !.host = [NoHost EXCEPT !.exists = TRUE]]

\* AdPlayer.setupFocusManagement
setupFocusManagement(w) ==
  [w EXCEPT !.elems.focusTrap = TRUE,
            !.elems.boundKeyHandler = TRUE,
            !.container.focusTraps = Sat(@),
            !.container.keyListeners = Sat(@)]

\* AdPlayer.attemptAutoplay up to its await; the continuation is PlaySettles
attemptAutoplay(w, allowed) ==
  IF ~w.elems.videoElement THEN w
  ELSE [w EXCEPT !.host = hostPlay(@, "autoplay", allowed)]

\* the listeners createVideoElement registers on the video element
onLoadedMetadata(w) ==
  emit([w EXCEPT !.state.duration = MediaDuration, !.state.status = Ready], "loaded")

onPlayEvent(w) == [w EXCEPT !.state.status = Playing]

onPauseEvent(w) ==
  IF w.state.status # Completed
  THEN track(emit([w EXCEPT !.state.status = Paused], "pause"), "pause", TRUE)
  ELSE w

\* the error listener reporting an untyped error
onErrorEvent_Undefined(w) ==
  handleError(w, createError(UNDEFINED_ERROR, "Video playback error"))

onErrorEvent(w) ==
  handleError(w, createError(MEDIA_NOT_SUPPORTED, "Video playback error"))

(***************************************************************************)
(* Committing a handler                                                    *)
(***************************************************************************)
\* the play, pause and ended events the host has queued reach their listeners, in order,
\* as soon as the running handler has returned
RECURSIVE dispatchQueued(_)
dispatchQueued(w) ==
  IF w.host.queue = <<>> THEN w
  ELSE LET ev == Head(w.host.queue)
           w0 == [w EXCEPT !.host.queue = Tail(@)]
       IN  dispatchQueued(CASE ev = "play" -> onPlayEvent(w0)
                            [] ev = "pause" -> onPauseEvent(w0)
                            [] ev = "ended" -> handleComplete(w0))

\* the effect record is kept for the handlers that end a session (error, destroy)
KeptTrace(trace) ==
  IF \E i \in DOMAIN trace : trace[i].a \in {"onError", "destroy"} THEN trace ELSE <<>>

Commit(handled) ==
  LET w == dispatchQueued(handled)
  IN  /\ UNCHANGED <<resolverVars, fnCall, platform>>
      /\ state' = w.state
      /\ ads' = w.ads
      /\ elems' = w.elems
      /\ tracker' = w.tracker
      /\ quartilesFired' = w.quartilesFired
      /\ listeners' = w.listeners
      /\ cfg' = w.cfg
      /\ container' = w.container
      /\ host' = w.host
      /\ obs' = [w.obs EXCEPT !.trace = KeptTrace(@),
                               !.sent = <<>>,
                               !.unpaused = @ \/ ~handled.host.paused]

(***************************************************************************)
(* The documents a session is run against: what parser.parse may return    *)
(***************************************************************************)
ImpressionUrl == <<"https://imp", "?t=", "[TIMESTAMP]">>
ErrorUrl == <<"https://err", "?code=", "[ERRORCODE]">>
WrapperErrorUrl == <<"https://wrapper-err", "?code=", "[ERRORCODE]">>

AllTrackingEvents ==
  << Tracking("start", <<"https://wrapper/start">>),
     Tracking("start", <<"https://t/start">>),
     Tracking("creativeView", <<"https://t/creativeView">>),
     Tracking("firstQuartile", <<"https://t/q1">>),
     Tracking("midpoint", <<"https://t/q2">>),
     Tracking("thirdQuartile", <<"https://t/q3", "?at=", "[ADPLAYHEAD]">>),
     Tracking("complete", <<"https://t/complete">>),
     Tracking("pause", <<"https://t/pause">>),
     Tracking("skip", <<"https://t/skip">>) >>

Mp4File ==
  [url |-> "https://cdn/video.mp4", type |-> "video/mp4", width |-> 1920,
   height |-> 1080, bitrate |-> 2500]

LinearCreative(skipOffset, mediaFiles) ==
  [isLinear |-> TRUE,
   linear |-> [skipOffset |-> skipOffset, mediaFiles |-> mediaFiles,
               trackingEvents |-> AllTrackingEvents]]

NonLinearCreative == [isLinear |-> FALSE, linear |-> NoLinear]

InlineAd(id, errors, creatives) ==
  [id |-> id, impressions |-> <<ImpressionUrl>>, errors |-> errors,
   creatives |-> creatives, wrapper |-> NoWrapper]

ParseFailure(message) ==
  [success |-> FALSE, ads |-> <<>>,
   error |-> [code |-> GENERAL_WRAPPER_ERROR, message |-> message]]

ParseSuccess(adList) == [success |-> TRUE, ads |-> adList, error |-> NoError]

ParseResults ==
  { ParseFailure("HTTP 404"),
    ParseSuccess(<<>>),
    ParseSuccess(<<InlineAd("no-linear", <<ErrorUrl>>, <<NonLinearCreative>>)>>),
    ParseSuccess(<<InlineAd("no-media", <<WrapperErrorUrl, ErrorUrl>>,
                            <<LinearCreative(Undefined, <<>>)>>)>>),
    ParseSuccess(<<InlineAd("skippable", <<WrapperErrorUrl, ErrorUrl>>,
                            <<NonLinearCreative, LinearCreative(2, <<Mp4File>>)>>)>>) }

\* config.skipOffset: absent, 0 ("no skip allowed") or an override
SkipOffsetOverrides == {Undefined, 0, 1}

(***************************************************************************)
(* Init: new AdPlayer(config)                                              *)
(***************************************************************************)
InitialState ==
  [status |-> Idle, currentTime |-> 0, duration |-> 0, muted |-> TRUE,
   canSkip |-> FALSE, skipCountdown |-> 0, mediaFile |-> NoMediaFile, error |-> NoError]

NoElements ==
  [videoElement |-> FALSE, overlayElement |-> FALSE, skipButtonElement |-> FALSE,
   focusTrap |-> FALSE, boundKeyHandler |-> FALSE]

EmptyContainer ==
  [videos |-> 0, overlays |-> 0, skipButtons |-> 0, focusTraps |-> 0, keyListeners |-> 0]

NoObservation ==
  [pixels |-> <<>>, heard |-> <<>>, callbacks |-> <<>>, trace |-> <<>>,
   destroys |-> 0, destroyCalls |-> 0, parsed |-> ParseSuccess(<<>>),
   autoplay |-> "none", unpaused |-> FALSE,
   call |-> [op |-> "none", type |-> "", once |-> FALSE, args |-> <<>>],
   ledger |-> <<>>, tracked |-> {}, sent |-> <<>>, raised |-> FALSE]

PlayerConstructed ==
  /\ state = InitialState
  /\ ads = <<>>
  /\ elems = NoElements
  /\ tracker = NoTracker
  /\ quartilesFired = {}
  /\ listeners = {}
  /\ pc = "idle"
  /\ container = EmptyContainer
  /\ host = NoHost
  /\ obs = NoObservation

PlayerInit ==
  /\ PlayerConstructed
  /\ cfg \in [skipOffset : SkipOffsetOverrides, customStartOverlay : {FALSE}]

(***************************************************************************)
(* AdPlayer.init                                                           *)
(***************************************************************************)
\* init() up to "await this.parser.parse(...)"
InitCall ==
  /\ pc = "idle"
  /\ Commit([Begin EXCEPT !.state.status = Loading])
  /\ pc' = "parsing"

\* initAfterParse without the "no linear creative" check
initAfterParse_NoLinearCheck(w, result, allowed) ==
  IF ~result.success
  THEN handleError(w, createError(result.error.code, result.error.message))
  ELSE
    LET w1 == [w EXCEPT !.ads = result.ads]
        linear == getFirstLinearCreative(w1.ads)
        mediaFile == selectBestMediaFile(linear.mediaFiles, TargetBitrate)
    IN  IF Len(w1.ads) = 0
        THEN handleError(w1, createError(NO_VAST_RESPONSE, "No ads in VAST response"))
        ELSE IF mediaFile = NoMediaFile
        THEN handleError(w1, createError(FILE_NOT_FOUND, "No suitable media file found"))
        ELSE
          LET w2 == [w1 EXCEPT !.state.mediaFile = mediaFile,
                               !.tracker = newAdTracker(aggregateTrackingEvents(w1.ads))]
              w3 == updateAssetUri(w2, mediaFile.url)
              w4 == createVideoElement(w3, mediaFile)
              w5 == setupFocusManagement(w4)
          IN  attemptAutoplay(w5, allowed)

\* the body of init() after the parse result arrived, up to "await this.attemptAutoplay()"
initAfterParse(w, result, allowed) ==
  IF ~result.success
  THEN handleError(w, createError(result.error.code, result.error.message))
  ELSE
    LET w1 == [w EXCEPT !.ads = result.ads]
        linear == getFirstLinearCreative(w1.ads)
        mediaFile == selectBestMediaFile(linear.mediaFiles, TargetBitrate)
    IN  IF Len(w1.ads) = 0
        THEN handleError(w1, createError(NO_VAST_RESPONSE, "No ads in VAST response"))
        ELSE IF ~HasLinearCreative(w1.ads)
        THEN handleError(w1, createError(GENERAL_LINEAR_ERROR, "No linear creative found"))
        ELSE IF mediaFile = NoMediaFile
        THEN handleError(w1, createError(FILE_NOT_FOUND, "No suitable media file found"))
        ELSE
          LET w2 == [w1 EXCEPT !.state.mediaFile = mediaFile,
                               !.tracker = newAdTracker(aggregateTrackingEvents(w1.ads))]
              w3 == updateAssetUri(w2, mediaFile.url)
              w4 == createVideoElement(w3, mediaFile)
              w5 == setupFocusManagement(w4)
          IN  attemptAutoplay(w5, allowed)

ParseReturns ==
  /\ pc = "parsing"
  /\ \E result \in ParseResults, allowed \in BOOLEAN :
       LET w0 == [Begin EXCEPT !.obs.parsed = result]
           w1 == initAfterParse(w0, result, allowed)
           called == Len(w1.host.pending) > 0
       IN  /\ Commit([w1 EXCEPT !.obs.autoplay = IF called THEN "pending" ELSE "none"])
           /\ pc' = IF called THEN "awaitPlay" ELSE "done"

(***************************************************************************)
(* The host settles a play() promise: the continuation of the awaiting code *)
(***************************************************************************)
RemoveAt(seq, i) == SubSeq(seq, 1, i - 1) \o SubSeq(seq, i + 1, Len(seq))

\* the host resolves play() promises in order, once playback has actually begun
CanResolve(h, i) ==
  /\ h.pending[i].ok
  /\ ~h.paused /\ h.meta /\ ~h.error
  /\ \A j \in 1..(i - 1) : ~h.pending[j].ok

\* afterPlay with an autoplay rejection treated as a failure, as onStartClick treats its own
afterPlay_NoSoftFail(w, tag, resolved) ==
  IF resolved /\ tag # "key" THEN handlePlaybackStart(w)
  ELSE IF tag # "key"
  THEN handleError(w, createError(GENERAL_LINEAR_ERROR, "Playback failed"))
  ELSE w

\* the code after "await this.videoElement.play()" in attemptAutoplay and onStartClick
afterPlay(w, tag, resolved) ==
  CASE tag = "autoplay" -> IF resolved THEN handlePlaybackStart(w) ELSE showStartOverlay(w)
    [] tag = "click" ->
         IF resolved THEN handlePlaybackStart(w)
         ELSE handleError(w, createError(GENERAL_LINEAR_ERROR, "Playback failed"))
    [] OTHER -> w

PlaySettles ==
  \E i \in DOMAIN host.pending :
    LET entry == host.pending[i]
        resolved == entry.ok
        w0 == [Begin EXCEPT !.host.pending = RemoveAt(@, i)]
        w1 == afterPlay(w0, entry.tag, resolved)
    IN  /\ resolved => CanResolve(host, i)
        /\ Commit([w1 EXCEPT !.obs.autoplay =
                     IF entry.tag = "autoplay"
                     THEN (IF resolved THEN "resolved" ELSE "rejected") ELSE @])
        /\ pc' = IF entry.tag = "autoplay" THEN "done" ELSE pc

(***************************************************************************)
(* Events of the host video element                                        *)
(***************************************************************************)
HostLoadedMetadata ==
  /\ host.exists /\ ~host.meta /\ ~host.error
  /\ Commit(onLoadedMetadata([Begin EXCEPT !.host.meta = TRUE]))
  /\ UNCHANGED pc

Advancing(h) ==
  /\ h.exists /\ ~h.paused /\ h.meta /\ ~h.error /\ ~h.ended
  /\ \A i \in DOMAIN h.pending : ~h.pending[i].ok

\* the playback position changes (forwards, or to any other position)
HostTimeUpdate ==
  /\ Advancing(host)
  /\ \E t \in 0..MediaDuration :
       /\ t # host.time
       /\ Commit(handleTimeUpdate([Begin EXCEPT !.host.time = t]))
  /\ UNCHANGED pc

\* the media reaches its end: the element pauses itself and reports ended
HostEnds ==
  /\ Advancing(host)
  /\ host.time = MediaDuration
  /\ \E events \in {<<"pause", "ended">>, <<"ended", "pause">>, <<"ended">>} :
       Commit([Begin EXCEPT !.host.ended = TRUE, !.host.paused = TRUE,
                            !.host.queue = events])
  /\ UNCHANGED pc

\* the media fails: error event, and every pending play() is going to reject
HostError ==
  /\ host.exists /\ ~host.error
  /\ LET w0 == [Begin EXCEPT !.host.error = TRUE, !.host.paused = TRUE,
                             !.host.pending = FailPending(@)]
     IN  Commit(onErrorEvent(w0))
  /\ UNCHANGED pc

(***************************************************************************)
(* User input                                                              *)
(***************************************************************************)
HostRoom == Len(host.pending) < MaxPending

\* the keydown listener of setupFocusManagement
KeyDown ==
  /\ container.keyListeners > 0
  /\ \E action \in KeyAction, allowed \in BOOLEAN :
       /\ action = "enter" /\ state.status = WaitingForInteraction => HostRoom
       /\ Commit(handleKeyAction(Begin, action, allowed))
  /\ UNCHANGED pc

\* a click on the button of the default start overlay
StartButtonClick ==
  /\ container.overlays > 0 /\ ~cfg.customStartOverlay
  /\ HostRoom
  /\ \E allowed \in BOOLEAN :
       Commit(onStartClick(Begin, allowed))
  /\ UNCHANGED pc

(***************************************************************************)
(* Public calls                                                            *)
(***************************************************************************)
Skip ==
  /\ pc # "idle"
  /\ Commit(skip(Begin))
  /\ UNCHANGED pc

Destroy ==
  /\ obs.destroyCalls < MaxDestroyCalls
  /\ Commit([destroy(Begin) EXCEPT !.obs.destroyCalls = @ + 1])
  /\ UNCHANGED pc

\* AdPlayer.on and the unsubscribe function it returns; the page registers its listeners
\* in ListenerOrder and unsubscribes them in the reverse order
On ==
  /\ pc = "idle"
  /\ \E i \in DOMAIN ListenerOrder :
       /\ listeners = {ListenerOrder[j] : j \in 1..(i - 1)}
       /\ Commit([Begin EXCEPT !.listeners = @ \cup {ListenerOrder[i]}])
  /\ UNCHANGED pc

Off ==
  /\ pc = "idle"
  /\ \E i \in DOMAIN ListenerOrder :
       /\ listeners = {ListenerOrder[j] : j \in 1..i}
       /\ Commit([Begin EXCEPT !.listeners = @ \ {ListenerOrder[i]}])
  /\ UNCHANGED pc

(***************************************************************************)
(* VAST documents as the parser reads them (VASTParser.parseXml, parseAd)  *)
(***************************************************************************)
\* a thrown value: an Error with its message, or something that is not an Error
NoThrow == [kind |-> "none", message |-> ""]

ErrorOf(message) == [kind |-> "Error", message |-> message]

NonError == [kind |-> "other", message |-> ""]

\* the Ad elements of a document: InLine, Wrapper, Wrapper with fallbackOnNoAd
AdKinds == {"inline", "wrapper", "fallback"}

Documents == UNION {[1..n -> AdKinds] : n \in 0..MaxAds}

\* what the transport does with one fetch
Responses ==
  [type : {"networkError", "nonError", "status404", "noRoot"}, doc : {<<>>}]
    \cup [type : {"vast"}, doc : Documents]

\* VASTParser.parseAd; the ad at position name carries one impression, one error URL
\* and one Linear creative with one tracking event, each named after the position
parseAd(kind, name) ==
  [id |-> name,
   impressions |-> <<name>>,
   errors |-> <<name>>,
   creatives |-> <<[isLinear |-> TRUE, trackingEvents |-> <<name>>]>>,
   wrapper |-> [present |-> kind # "inline",
                vastAdTagURI |-> IF kind # "inline" THEN "tag" ELSE "",
                fallbackOnNoAd |-> kind = "fallback"]]

\* VASTParser.fetchWithTimeout
fetchWithTimeout(response) ==
  CASE response.type = "networkError" -> [error |-> ErrorOf("Failed to fetch"), xml |-> response]
    [] response.type = "nonError" -> [error |-> NonError, xml |-> response]
    [] response.type = "status404" ->
         [error |-> ErrorOf("HTTP 404: Not Found"), xml |-> response]
    [] response.type = "aborted" ->
         [error |-> ErrorOf("The operation was aborted"), xml |-> response]
    [] OTHER -> [error |-> NoThrow, xml |-> response]

\* VASTParser.parseXml
parseXml(xml, path) ==
  IF xml.type = "noRoot"
  THEN [error |-> ErrorOf("Invalid VAST: missing VAST element"), ads |-> <<>>]
  ELSE [error |-> NoThrow,
        ads |-> [i \in DOMAIN xml.doc |-> parseAd(xml.doc[i], path \o <<i>>)]]

(***************************************************************************)
(* VASTParser.fetchAndParse / resolveWrapper                               *)
(***************************************************************************)
Put(f, k, v) == [x \in DOMAIN f \cup {k} |-> IF x = k THEN v ELSE f[x]]

Front(path) == SubSeq(path, 1, Len(path) - 1)

Min(S) == CHOOSE x \in S : \A y \in S : x <= y

\* requests counts the fetchFn calls of the frame, timer is the setTimeout of
\* fetchWithTimeout, overdue tells that the fetch is outstanding although config.timeout
\* has passed since it began
NewFrame(status, error) ==
  [status |-> status, parsed |-> FALSE, ads |-> <<>>, resolved |-> <<>>, error |-> error,
   requests |-> IF status = "fetching" THEN 1 ELSE 0,
   timer |-> IF status = "fetching" THEN "armed" ELSE "none",
   overdue |-> FALSE]

LimitError(max) == ErrorOf("Wrapper limit exceeded (max: " \o ToString(max) \o ")")

\* fetchAndParse with the limit test off by one
fetchAndParseCall_LimitOffByOne(r, path) ==
  IF Len(path) > r.config.maxWrapperDepth
  THEN [r EXCEPT !.frames = Put(@, path,
                     NewFrame("rejected", LimitError(r.config.maxWrapperDepth)))]
  ELSE [r EXCEPT !.frames = Put(@, path, NewFrame("fetching", NoThrow)),
                 !.fetches = @ \cup {Len(path)}]

\* fetchAndParse without the limit test
fetchAndParseCall_NoLimit(r, path) ==
  [r EXCEPT !.frames = Put(@, path, NewFrame("fetching", NoThrow)),
            !.fetches = @ \cup {Len(path)}]

\* fetchAndParse requesting the document below its first Ad together with its own
fetchAndParseCall_Prefetch(r, path) ==
  IF Len(path) >= r.config.maxWrapperDepth
  THEN [r EXCEPT !.frames = Put(@, path,
                     NewFrame("rejected", LimitError(r.config.maxWrapperDepth)))]
  ELSE [r EXCEPT !.frames = Put(Put(@, path, NewFrame("fetching", NoThrow)),
                                path \o <<1>>, NewFrame("fetching", NoThrow)),
                 !.fetches = @ \cup {Len(path), Len(path) + 1}]

\* fetchAndParse(url, depth) up to "await this.fetchWithTimeout(url)"; depth is Len(path)
fetchAndParseCall(r, path) ==
  IF Len(path) >= r.config.maxWrapperDepth
  THEN [r EXCEPT !.frames = Put(@, path,
                     NewFrame("rejected", LimitError(r.config.maxWrapperDepth)))]
  ELSE [r EXCEPT !.frames = Put(@, path, NewFrame("fetching", NoThrow)),
                 !.fetches = @ \cup {Len(path)}]

\* VASTParser.getWrapperTrackingEvents
getWrapperTrackingEvents(wrapper) ==
  Flatten([i \in DOMAIN wrapper.creatives |->
             IF wrapper.creatives[i].isLinear
             THEN wrapper.creatives[i].trackingEvents ELSE <<>>])

\* mergeWrapperTracking putting the wrapper's error URLs in place of the nested Ad's
mergeWrapperTracking_ErrorsReplaced(wrapper, nested) ==
  [nested EXCEPT
     !.impressions = wrapper.impressions \o nested.impressions,
     !.errors = wrapper.errors,
     !.creatives =
        [i \in DOMAIN nested.creatives |->
           IF nested.creatives[i].isLinear
           THEN [nested.creatives[i] EXCEPT
                   !.trackingEvents = getWrapperTrackingEvents(wrapper) \o @]
           ELSE nested.creatives[i]]]

\* VASTParser.mergeWrapperTracking
mergeWrapperTracking(wrapper, nested) ==
  [nested EXCEPT
     !.impressions = wrapper.impressions \o nested.impressions,
     !.errors = wrapper.errors \o nested.errors,
     !.creatives =
        [i \in DOMAIN nested.creatives |->
           IF nested.creatives[i].isLinear
           THEN [nested.creatives[i] EXCEPT
                   !.trackingEvents = getWrapperTrackingEvents(wrapper) \o @]
           ELSE nested.creatives[i]]]

Settled(adList) == [state |-> "resolved", ads |-> adList, error |-> NoThrow]

Thrown(error) == [state |-> "rejected", ads |-> <<>>, error |-> error]

Pending == [state |-> "pending", ads |-> <<>>, error |-> NoThrow]

\* the promise a nested fetchAndParse call returned
nestedResponse(fs, path) ==
  CASE fs[path].status = "resolved" -> Settled(fs[path].resolved)
    [] fs[path].status = "rejected" -> Thrown(fs[path].error)
    [] OTHER -> Pending

\* resolveWrapper rethrowing whatever the wrapper's fallbackOnNoAd says
resolveWrapper_NoFallback(fs, wrapperAd, path) ==
  IF ~wrapperAd.wrapper.present \/ wrapperAd.wrapper.vastAdTagURI = ""
  THEN Settled(<<wrapperAd>>)
  ELSE
    LET nested == nestedResponse(fs, path)
    IN  CASE nested.state = "resolved" ->
               Settled([k \in DOMAIN nested.ads |->
                          mergeWrapperTracking(wrapperAd, nested.ads[k])])
          [] nested.state = "rejected" -> Thrown(nested.error)
          [] OTHER -> Pending

\* resolveWrapper handing the wrapper itself back when its nested document failed
resolveWrapper_KeepsWrapper(fs, wrapperAd, path) ==
  IF ~wrapperAd.wrapper.present \/ wrapperAd.wrapper.vastAdTagURI = ""
  THEN Settled(<<wrapperAd>>)
  ELSE
    LET nested == nestedResponse(fs, path)
    IN  CASE nested.state = "resolved" ->
               Settled([k \in DOMAIN nested.ads |->
                          mergeWrapperTracking(wrapperAd, nested.ads[k])])
          [] nested.state = "rejected" ->
               IF wrapperAd.wrapper.fallbackOnNoAd THEN Settled(<<wrapperAd>>)
               ELSE Thrown(nested.error)
          [] OTHER -> Pending

\* VASTParser.resolveWrapper: the promise it returned for the wrapper whose nested
\* document is fetched by the call at path
resolveWrapper(fs, wrapperAd, path) ==
  IF ~wrapperAd.wrapper.present \/ wrapperAd.wrapper.vastAdTagURI = ""
  THEN Settled(<<wrapperAd>>)
  ELSE
    LET nested == nestedResponse(fs, path)
    IN  CASE nested.state = "resolved" ->
               Settled([k \in DOMAIN nested.ads |->
                          mergeWrapperTracking(wrapperAd, nested.ads[k])])
          [] nested.state = "rejected" ->
               IF wrapperAd.wrapper.fallbackOnNoAd THEN Settled(<<>>)
               ELSE Thrown(nested.error)
          [] OTHER -> Pending

\* the callback of parsed.ads.map in fetchAndParse
resolvedAd(fs, path, i) ==
  LET ad == fs[path].ads[i]
  IN  IF ad.wrapper.present /\ ad.wrapper.vastAdTagURI # ""
      THEN resolveWrapper(fs, ad, path \o <<i>>)
      ELSE Settled(<<ad>>)

\* Promise.all handing back its results last promise first
promiseAll_LastFirst(fs, path) ==
  LET f == fs[path]
      parts == [i \in DOMAIN f.ads |-> resolvedAd(fs, path, i)]
      rejected == {i \in DOMAIN parts : parts[i].state = "rejected"}
  IN  IF f.status # "waiting" THEN f
      ELSE IF rejected # {}
      THEN [f EXCEPT !.status = "rejected", !.error = parts[Min(rejected)].error]
      ELSE IF \A i \in DOMAIN parts : parts[i].state = "resolved"
      THEN [f EXCEPT !.status = "resolved",
                     !.resolved = Flatten([i \in DOMAIN parts |->
                                             parts[Len(parts) + 1 - i].ads])]
      ELSE f

\* "await Promise.all(...)" in fetchAndParse: the call at path settles as soon as one
\* of its promises has rejected or all of them have resolved
promiseAll(fs, path) ==
  LET f == fs[path]
      parts == [i \in DOMAIN f.ads |-> resolvedAd(fs, path, i)]
      rejected == {i \in DOMAIN parts : parts[i].state = "rejected"}
  IN  IF f.status # "waiting" THEN f
      ELSE IF rejected # {}
      THEN [f EXCEPT !.status = "rejected", !.error = parts[Min(rejected)].error]
      ELSE IF \A i \in DOMAIN parts : parts[i].state = "resolved"
      THEN [f EXCEPT !.status = "resolved",
                     !.resolved = Flatten([i \in DOMAIN parts |-> parts[i].ads])]
      ELSE f

\* the continuations that run once the call at path may have settled
RECURSIVE evaluate(_, _)
evaluate(fs, path) ==
  LET f == promiseAll(fs, path)
      after == [fs EXCEPT ![path] = f]
  IN  IF f = fs[path] \/ path = <<>> THEN after
      ELSE evaluate(after, Front(path))

notify(fs, path) == IF path = <<>> THEN fs ELSE evaluate(fs, Front(path))

\* the calls parsed.ads.map makes before Promise.all is awaited
RECURSIVE spawnWrappers(_, _, _)
spawnWrappers(r, path, i) ==
  LET adList == r.frames[path].ads
  IN  IF i > Len(adList) THEN r
      ELSE spawnWrappers(
             IF adList[i].wrapper.present /\ adList[i].wrapper.vastAdTagURI # ""
             THEN fetchAndParseCall(r, path \o <<i>>) ELSE r,
             path, i + 1)

\* fetchAndParse from the point where the fetch of the call at path settles
fetchAndParseResume(r, path, response) ==
  LET fetched == fetchWithTimeout(response)
      doc == parseXml(fetched.xml, path)
      failure == IF fetched.error # NoThrow THEN fetched.error ELSE doc.error
  IN  IF failure # NoThrow
      THEN [r EXCEPT !.frames =
              notify([@ EXCEPT ![path] = [@ EXCEPT !.status = "rejected",
                                                   !.error = failure,
                                                   !.timer = "cleared",
                                                   !.overdue = FALSE]], path)]
      ELSE
        LET r1 == [r EXCEPT !.frames[path] =
                               [@ EXCEPT !.status = "waiting", !.parsed = TRUE,
                                         !.ads = doc.ads, !.timer = "cleared",
                                         !.overdue = FALSE]]
            r2 == spawnWrappers(r1, path, 1)
        IN  [r2 EXCEPT !.frames = evaluate(@, path)]

(***************************************************************************)
(* VASTParser.parse                                                        *)
(***************************************************************************)
NoParseResult ==
  [thrown |-> FALSE, success |-> FALSE, hasResponse |-> FALSE, ads |-> <<>>,
   code |-> 0, message |-> ""]

\* parse without its catch block
parse_NoCatch(root) ==
  IF root.status = "resolved"
  THEN [thrown |-> FALSE, success |-> TRUE, hasResponse |-> TRUE, ads |-> root.resolved,
        code |-> 0, message |-> ""]
  ELSE [NoParseResult EXCEPT !.thrown = TRUE]

\* parse(vastUrl) once fetchAndParse(vastUrl, 0) has settled
parse(root) ==
  IF root.status = "resolved"
  THEN [thrown |-> FALSE, success |-> TRUE, hasResponse |-> TRUE, ads |-> root.resolved,
        code |-> 0, message |-> ""]
  ELSE [thrown |-> FALSE, success |-> FALSE, hasResponse |-> FALSE, ads |-> <<>>,
        code |-> GENERAL_WRAPPER_ERROR,
        message |-> IF root.error.kind = "Error" THEN root.error.message
                    ELSE "Unknown error"]

Resolver == [config |-> parserConfig, frames |-> frames, fetches |-> fetches]

RootSettled(r) == r.frames[<<>>].status \in {"resolved", "rejected"}

\* the resolver's step is taken; parse() returns when the root call settles
Resolved(r) ==
  /\ frames' = r.frames
  /\ fetches' = r.fetches
  /\ IF rpc' = "done" /\ rpc # "done"
     THEN parseResult' = parse(r.frames[<<>>])
     ELSE UNCHANGED parseResult
  /\ UNCHANGED <<parserConfig, playerVars, fnCall, platform>>

ParseCall ==
  /\ rpc = "idle"
  /\ LET r == fetchAndParseCall(Resolver, <<>>)
     IN  /\ rpc' = IF RootSettled(r) THEN "done" ELSE "resolving"
         /\ Resolved(r)

Fetching == {p \in DOMAIN frames : frames[p].status = "fetching"}

WrappersIn(doc) == Cardinality({i \in DOMAIN doc : doc[i] # "inline"})

\* config.timeout passes for a fetch whose response has not arrived: the timer aborts
\* the fetch, which rejects
TimeoutElapses ==
  \E path \in Fetching :
    /\ frames[path].timer = "armed"
    /\ LET r == fetchAndParseResume(Resolver, path, [type |-> "aborted", doc |-> <<>>])
       IN  /\ rpc' = IF RootSettled(r) THEN "done" ELSE rpc
           /\ Resolved(r)

\* the response of a fetch arrives with an ok status and its body does not arrive before
\* config.timeout has passed: fetchWithTimeout returns response.text() unawaited, so its
\* finally has cleared the timer by then
BodyStalls ==
  \E path \in Fetching :
    /\ frames[path].timer = "armed"
    /\ rpc' = rpc
    /\ Resolved([Resolver EXCEPT !.frames[path].timer = "cleared",
                                 !.frames[path].overdue = TRUE])

\* the transport settles one outstanding fetch, in any order; once the response has
\* arrived only the reading of its body can still fail
FetchSettles ==
  \E path \in Fetching, response \in Responses :
    /\ frames[path].timer = "cleared" => response.type \in {"networkError", "noRoot", "vast"}
    /\ Cardinality(DOMAIN frames) + WrappersIn(response.doc) <= MaxCalls
    /\ LET r == fetchAndParseResume(Resolver, path, response)
       IN  /\ rpc' = IF RootSettled(r) THEN "done" ELSE rpc
           /\ Resolved(r)

ResolverIdle ==
  /\ frames = <<>>
  /\ fetches = {}
  /\ parseResult = NoParseResult
  /\ rpc = "idle"

ResolverInit ==
  /\ ResolverIdle
  /\ parserConfig \in [maxWrapperDepth : 0..MaxDepthBound]

(***************************************************************************)
(* AdTracker on its own: any sequence of track, reset and updateMacroContext *)
(***************************************************************************)
\* the events the tracker is constructed with
TrackerEvents ==
  SelectSeq(AllTrackingEvents, LAMBDA e : e.event \in {"start", "thirdQuartile"})

\* the event types track is called with; nothing is registered for "mute"
TrackedTypes == {"start", "thirdQuartile", "mute"}

\* the call is taken; obs.ledger counts, per registered event, the deliveries made by
\* once=true calls since the last reset, obs.tracked holds the types of those calls
TrackerCalled(w, call) ==
  LET made(e) == Cardinality({i \in DOMAIN w.obs.trace :
                    w.obs.trace[i] =
                      Effect("pixel", e.event, replaceMacros(e.url, tracker.macroContext))})
      counted == call.op = "track" /\ call.once
  IN  /\ tracker' = w.tracker
      /\ obs' = [w.obs EXCEPT
                   !.call = call,
                   !.ledger = IF call.op = "reset" THEN [e \in DOMAIN @ |-> 0]
                              ELSE IF counted
                              THEN [e \in DOMAIN @ |->
                                      IF @[e] + made(e) < CountCap THEN @[e] + made(e)
                                      ELSE CountCap]
                              ELSE @,
                   !.tracked = IF call.op = "reset" THEN {}
                               ELSE IF counted THEN @ \cup {call.type} ELSE @]
      /\ state' = w.state
      /\ UNCHANGED <<ads, elems, quartilesFired, listeners, cfg, pc, container, host>>
      /\ UNCHANGED <<resolverVars, fnCall, platform>>

TrackCall ==
  \E eventType \in TrackedTypes, once \in BOOLEAN :
    TrackerCalled(track(Begin, eventType, once),
                  [op |-> "track", type |-> eventType, once |-> once, args |-> <<>>])

ResetCall ==
  TrackerCalled(resetTracker(Begin), [op |-> "reset", type |-> "", once |-> FALSE, args |-> <<>>])

UpdateMacroContextCall ==
  \E t \in 0..1 :
    TrackerCalled(updateAdPlayhead(Begin, t),
                  [op |-> "updateMacroContext", type |-> "", once |-> FALSE, args |-> <<>>])

\* the URL lists fireImpressions and fireError are given
PixelUrlLists ==
  {<<>>, <<ImpressionUrl>>, <<ErrorUrl, ImpressionUrl>>, <<ErrorUrl, ErrorUrl>>}

(***************************************************************************)
(* AdTracker and the transports: any sequence of firePixel, fireImpressions, *)
(* fireError and track(once) while the transports work, fail or throw       *)
(***************************************************************************)
\* the call is taken; it is observed by its own trace and the transports it called
DeliveryCalled(w, call) ==
  /\ tracker' = w.tracker
  /\ state' = w.state
  /\ obs' = [w.obs EXCEPT !.call = call, !.pixels = <<>>]
  /\ UNCHANGED <<ads, elems, quartilesFired, listeners, cfg, pc, container, host>>
  /\ UNCHANGED <<resolverVars, fnCall, platform>>

TrackOnceCall ==
  \E eventType \in TrackedTypes :
    DeliveryCalled(track(Begin, eventType, TRUE),
                   [op |-> "track", type |-> eventType, once |-> TRUE, args |-> <<>>])

FirePixelCall ==
  DeliveryCalled(firePixel(Begin, "pixel", ImpressionUrl),
                [op |-> "firePixel", type |-> "", once |-> FALSE, args |-> <<ImpressionUrl>>])

FireImpressionsCall ==
  \E urls \in PixelUrlLists :
    DeliveryCalled(fireImpressions(Begin, urls),
                   [op |-> "fireImpressions", type |-> "", once |-> FALSE, args |-> <<urls>>])

FireErrorCall ==
  \E urls \in PixelUrlLists, errorCode \in {MEDIA_NOT_SUPPORTED, UNDEFINED_ERROR} :
    DeliveryCalled(fireError(Begin, urls, errorCode),
                   [op |-> "fireError", type |-> "", once |-> FALSE,
                    args |-> <<urls, errorCode>>])

\* the runtime's transports start or stop working between two calls
TransportChanges ==
  /\ platform' \in {q \in Platforms : q.capabilities = platform.capabilities} \ {platform}
  /\ UNCHANGED <<playerVars, resolverVars, fnCall>>

(***************************************************************************)
(* The stateless functions, each behaviour being one call with arguments   *)
(* of the caller's choice                                                  *)
(***************************************************************************)
\* media files as a document may describe them: container type, height, optional bitrate
MediaFiles ==
  [url : {"https://cdn/video"}, type : {"video/mp4", "video/webm"}, width : {0},
   height : {720, 1080, 2160}, bitrate : {Undefined, 2500, 20000}]

MediaFileLists == UNION {[1..n -> MediaFiles] : n \in 0..MaxFiles}

TargetBitrates == {TargetBitrate, 20000}

SelectBestMediaFileCall ==
  /\ fnCall = NoCall
  /\ \E mediaFiles \in MediaFileLists, targetBitrate \in TargetBitrates :
       fnCall' = [fn |-> "selectBestMediaFile", args |-> <<mediaFiles, targetBitrate>>,
                  result |-> selectBestMediaFile(mediaFiles, targetBitrate)]
  /\ UNCHANGED <<playerVars, resolverVars, platform>>

\* the tokens a tracking URL is made of: the eight macros and a literal part
UrlTokens ==
  {"[TIMESTAMP]", "[CACHEBUSTING]", "[ASSETURI]", "[CONTENTPLAYHEAD]", "[ADPLAYHEAD]",
   "[ERRORCODE]", "[BREAKPOSITION]", "[ADTYPE]", "https://t/p?"}

Urls == UNION {[1..n -> UrlTokens] : n \in 1..MaxTokens}

\* every field absent or present; a present string may be empty, a present number 0
MacroContexts ==
  [assetUri : {Absent, "", "https://cdn/video.mp4"},
   contentPlayhead : {Undefined, 0}, adPlayhead : {Undefined, 0},
   errorCode : {Undefined, 0}, breakPosition : {Undefined, 0},
   adType : {Absent, "", "linear"}]

ReplaceMacrosCall ==
  /\ fnCall = NoCall
  /\ \E url \in Urls, context \in MacroContexts :
       fnCall' = [fn |-> "replaceMacros", args |-> <<url, context>>,
                  result |-> replaceMacros(url, context)]
  /\ UNCHANGED <<playerVars, resolverVars, platform>>

\* non-negative numbers of seconds, as whole part and millionths: 0, 3661.123, values
\* just below a carry, and 100 hours
PlayheadSeconds ==
  {<<0, 0>>, <<3661, 123000>>, <<59, 999999>>, <<3599, 999999>>, <<0, 999>>, <<0, 1000>>,
   <<359999, 999999>>, <<360000, 0>>}

FormatPlayheadCall ==
  /\ fnCall = NoCall
  /\ \E seconds \in PlayheadSeconds :
       fnCall' = [fn |-> "formatPlayhead", args |-> seconds,
                  result |-> formatPlayheadOf(seconds[1], seconds[2])]
  /\ UNCHANGED <<playerVars, resolverVars, platform>>

\* Ads with up to MaxCreatives creatives, Linear or not; a Linear creative carries one
\* tracking event named after the Ad and the creative's position
AdsNamed(name, kind) ==
  {[parseAd(kind, name) EXCEPT
      !.creatives = [i \in DOMAIN linear |->
                       [isLinear |-> linear[i],
                        trackingEvents |-> IF linear[i] THEN << <<name, i>> >> ELSE <<>>]]] :
     linear \in UNION {[1..n -> BOOLEAN] : n \in 0..MaxCreatives}}

MergeWrapperTrackingCall ==
  /\ fnCall = NoCall
  /\ \E wrapper \in AdsNamed("wrapper", "wrapper"), nested \in AdsNamed("nested", "inline") :
       fnCall' = [fn |-> "mergeWrapperTracking", args |-> <<wrapper, nested>>,
                  result |-> mergeWrapperTracking(wrapper, nested)]
  /\ UNCHANGED <<playerVars, resolverVars, platform>>

NextLibrary ==
  \/ SelectBestMediaFileCall
  \/ ReplaceMacrosCall
  \/ FormatPlayheadCall
  \/ MergeWrapperTrackingCall

Next ==
  \/ InitCall
  \/ ParseReturns
  \/ PlaySettles
  \/ HostLoadedMetadata
  \/ HostTimeUpdate
  \/ HostEnds
  \/ HostError
  \/ KeyDown
  \/ StartButtonClick
  \/ Skip
  \/ Destroy
  \/ On
  \/ Off

NextResolver ==
  \/ ParseCall
  \/ TimeoutElapses
  \/ BodyStalls
  \/ FetchSettles

NextTracker ==
  \/ TrackCall
  \/ ResetCall
  \/ UpdateMacroContextCall

NextDelivery ==
  \/ TrackOnceCall
  \/ FirePixelCall
  \/ FireImpressionsCall
  \/ FireErrorCall
  \/ TransportChanges

vars == <<playerVars, resolverVars, fnCall, platform>>

\* a player is constructed and its parser is never called directly
Init ==
  /\ PlayerInit
  /\ ResolverIdle
  /\ parserConfig = [maxWrapperDepth |-> DefaultMaxWrapperDepth]
  /\ fnCall = NoCall
  /\ platform = BeaconPlatform

Spec == Init /\ [][Next]_vars

\* a parser is constructed and the player around it stays as constructed
InitResolver ==
  /\ ResolverInit
  /\ PlayerConstructed
  /\ cfg = [skipOffset |-> Undefined, customStartOverlay |-> FALSE]
  /\ fnCall = NoCall
  /\ platform = BeaconPlatform

SpecResolver == InitResolver /\ [][NextResolver]_vars

\* a tracker is constructed with its events on some platform; no player drives it
InitTracker ==
  /\ state = InitialState /\ ads = <<>> /\ elems = NoElements
  /\ quartilesFired = {} /\ listeners = {} /\ pc = "idle"
  /\ container = EmptyContainer /\ host = NoHost
  /\ cfg = [skipOffset |-> Undefined, customStartOverlay |-> FALSE]
  /\ tracker = newAdTracker(TrackerEvents)
  /\ obs = [NoObservation EXCEPT !.ledger = [e \in Range(TrackerEvents) |-> 0]]
  /\ ResolverIdle
  /\ parserConfig = [maxWrapperDepth |-> DefaultMaxWrapperDepth]
  /\ fnCall = NoCall
  /\ platform \in Platforms

SpecTracker == InitTracker /\ [][NextTracker]_vars

\* the same tracker, called while its transports vary
SpecDelivery == InitTracker /\ [][NextDelivery]_vars

\* no player, parser or tracker is driven: the stateless functions are called
InitLibrary ==
  /\ PlayerConstructed
  /\ cfg = [skipOffset |-> Undefined, customStartOverlay |-> FALSE]
  /\ ResolverIdle
  /\ parserConfig = [maxWrapperDepth |-> DefaultMaxWrapperDepth]
  /\ fnCall = NoCall
  /\ platform = BeaconPlatform

SpecLibrary == InitLibrary /\ [][NextLibrary]_vars

(***************************************************************************)
(* Observations used by the properties                                     *)
(***************************************************************************)
Delivered(kind, url) == Count(obs.pixels, [kind |-> kind, url |-> url])

\* the session lasts until destroy() has run
InSession == obs.destroys = 0

StartsHandled == Count(obs.callbacks, "onStart")

\* the endpoints the resolved document registers for one tracking event
Registered(eventType) ==
  Range(EventsOfType(aggregateTrackingEvents(obs.parsed.ads), eventType))

\* no impression and no tracking-event pixel has been delivered (error pixels aside)
NoTrackingDelivered == \A k \in DOMAIN obs.pixels : k.kind = "error"

AutoplayRejectedStep == obs.autoplay = "pending" /\ obs'.autoplay = "rejected"

C2_StartTrackedOnce ==
  InSession =>
    \A e \in Registered("start") :
      /\ Delivered("start", e.url) <= 1
      /\ StartsHandled >= 1 => Delivered("start", e.url) = 1

C2_Witness ==
  /\ InSession
  /\ StartsHandled = 2
  /\ Registered("start") # {}
  /\ \A e \in Registered("start") : Delivered("start", e.url) = 1

(***************************************************************************)
(* C3: within one session every impression pixel and every creativeView     *)
(* tracking URL is delivered at most once, and exactly once as soon as a    *)
(* playback start has been handled.                                         *)
(***************************************************************************)
C3_ImpressionOnce ==
  InSession =>
    /\ \A u \in Range(aggregateImpressions(obs.parsed.ads)) :
         /\ Delivered("impression", replaceMacros(u, EmptyMacroContext)) <= 1
         /\ StartsHandled >= 1 =>
              Delivered("impression", replaceMacros(u, EmptyMacroContext)) = 1
    /\ \A e \in Registered("creativeView") :
         /\ Delivered("creativeView", e.url) <= 1
         /\ StartsHandled >= 1 => Delivered("creativeView", e.url) = 1

(***************************************************************************)
(* C4: the start event reaches a listener at most once per session and the *)
(* start callback is invoked at most once.                                  *)
(***************************************************************************)
C4_StartEventOnce ==
  /\ Count(obs.callbacks, "onStart") <= 1
  /\ \A l \in Listeners : Count(obs.heard, <<l, "start">>) <= 1

(***************************************************************************)
(* C5: once the status is Completed or Error, no step changes it.           *)
(***************************************************************************)
C5_TerminalStatus ==
  [][state.status \in {Completed, Error} => state'.status = state.status]_vars

(***************************************************************************)
(* C6: whenever the error callback is invoked, every error URL of the ads   *)
(* resolved so far has been delivered before it, with the error code        *)
(* substituted.                                                             *)
(***************************************************************************)
C6_ErrorPixelsBeforeCallback ==
  \A i \in DOMAIN obs.trace :
    obs.trace[i] = Effect("callback", "onError", <<>>) =>
      \A u \in Range(collectErrorUrls(ads)) :
        \E j \in 1..(i - 1) :
          obs.trace[j] =
            Effect("pixel", "error",
                   replaceMacros(u, [tracker.macroContext EXCEPT
                                       !.errorCode = state.error.code]))

(***************************************************************************)
(* C7: when resolution fails, the ad list is empty, no Linear creative is   *)
(* found or no media file is selected, init() ends in Error with the typed  *)
(* error recorded and exactly one error callback; the status was Idle or    *)
(* Loading until then and no playback surface is ever created.              *)
(***************************************************************************)
ExpectedInitError(result) ==
  IF ~result.success THEN result.error.code
  ELSE IF Len(result.ads) = 0 THEN NO_VAST_RESPONSE
  ELSE IF ~HasLinearCreative(result.ads) THEN GENERAL_LINEAR_ERROR
  ELSE IF getFirstLinearCreative(result.ads).mediaFiles = <<>> THEN FILE_NOT_FOUND
  ELSE 0

InitFailed == pc = "done" /\ ExpectedInitError(obs.parsed) # 0

Ones(k) == [j \in 1..k |-> 1]

IsWrapperAd(ad) == ad.wrapper.present /\ ad.wrapper.vastAdTagURI # ""

\* parse() was called and the documents at depths 0..n-1 have been fetched, each holding
\* exactly one ad, a wrapper
WrapperChain(n) ==
  /\ rpc # "idle"
  /\ \A k \in 0..(n - 1) :
       /\ Ones(k) \in DOMAIN frames
       /\ frames[Ones(k)].parsed
       /\ Len(frames[Ones(k)].ads) = 1
       /\ IsWrapperAd(frames[Ones(k)].ads[1])

ChainHasFallback(n) ==
  \E k \in 0..(n - 1) : frames[Ones(k)].ads[1].wrapper.fallbackOnNoAd

\* the document at depth n has been fetched and holds no wrapper
ChainEndsAt(n) ==
  /\ Ones(n) \in DOMAIN frames
  /\ frames[Ones(n)].parsed
  /\ \A i \in DOMAIN frames[Ones(n)].ads : ~IsWrapperAd(frames[Ones(n)].ads[i])

LimitFailure ==
  /\ ~parseResult.thrown /\ ~parseResult.success
  /\ parseResult.message = LimitError(parserConfig.maxWrapperDepth).message

NoFetchAtLimit == \A d \in fetches : d < parserConfig.maxWrapperDepth

ShorterChainSucceeds ==
  parserConfig.maxWrapperDepth >= 1
    /\ WrapperChain(parserConfig.maxWrapperDepth - 1)
    /\ ChainEndsAt(parserConfig.maxWrapperDepth - 1)
    => rpc = "done" /\ parseResult.success

\* C8 as stated: a chain of exactly maxWrapperDepth wrappers fails with the limit
\* error whatever the wrappers' attributes
C8_AnyChainFails ==
  /\ NoFetchAtLimit
  /\ WrapperChain(parserConfig.maxWrapperDepth) => rpc = "done" /\ LimitFailure
  /\ ShorterChainSucceeds

(***************************************************************************)
(* C8: no fetch is issued at depth >= maxWrapperDepth; a chain of exactly   *)
(* maxWrapperDepth wrappers none of which sets fallbackOnNoAd fails with    *)
(* the wrapper-limit error, and with a wrapper that sets it the parse       *)
(* succeeds with no ads; a chain of maxWrapperDepth - 1 wrappers ending in  *)
(* a document without wrappers succeeds.                                    *)
(***************************************************************************)
C8_WrapperLimit ==
  /\ NoFetchAtLimit
  /\ WrapperChain(parserConfig.maxWrapperDepth) =>
       /\ rpc = "done"
       /\ IF ChainHasFallback(parserConfig.maxWrapperDepth)
          THEN parseResult.success /\ parseResult.ads = <<>>
          ELSE LimitFailure
  /\ ShorterChainSucceeds

C8_Witness ==
  /\ parserConfig.maxWrapperDepth = 2
  /\ WrapperChain(2)
  /\ ~ChainHasFallback(2)
  /\ fetches = {0, 1}
  /\ LimitFailure

(***************************************************************************)
(* C9: when the nested resolution of a wrapper has failed, a wrapper with   *)
(* fallbackOnNoAd contributes no ads to the enclosing resolution and its    *)
(* siblings are kept, and a wrapper without it makes the enclosing          *)
(* resolution fail with a nested error; nothing else fails a resolution     *)
(* whose document was read.                                                 *)
(***************************************************************************)
NestedFailed(path, i) ==
  /\ IsWrapperAd(frames[path].ads[i])
  /\ frames[path \o <<i>>].status = "rejected"

\* what the ad at index i of a resolved document contributes
Contribution(path, i) ==
  LET ad == frames[path].ads[i]
      nested == frames[path \o <<i>>]
  IN  IF ~IsWrapperAd(ad) THEN <<ad>>
      ELSE IF nested.status = "rejected" THEN <<>>
      ELSE [k \in DOMAIN nested.resolved |-> mergeWrapperTracking(ad, nested.resolved[k])]

C9_FallbackPolicy ==
  \A path \in DOMAIN frames :
    LET f == frames[path]
        propagating == {i \in DOMAIN f.ads :
                          NestedFailed(path, i) /\ ~f.ads[i].wrapper.fallbackOnNoAd}
    IN  f.parsed =>
          /\ propagating # {} =>
               /\ f.status = "rejected"
               /\ \E i \in propagating : f.error = frames[path \o <<i>>].error
          /\ f.status = "rejected" => propagating # {}
          /\ f.status = "resolved" =>
               f.resolved = Flatten([i \in DOMAIN f.ads |-> Contribution(path, i)])

C9_Witness ==
  /\ rpc = "done"
  /\ parseResult.success
  /\ Len(frames[<<>>].ads) = 2
  /\ NestedFailed(<<>>, 1)
  /\ frames[<<>>].ads[1].wrapper.fallbackOnNoAd
  /\ ~IsWrapperAd(frames[<<>>].ads[2])
  /\ parseResult.ads = <<frames[<<>>].ads[2]>>

(***************************************************************************)
(* C10: parse() never throws; what it returns on failure has success false, *)
(* a code of the VAST error vocabulary, a message and no response, and what *)
(* it returns on success has a response.                                    *)
(***************************************************************************)
C10_ParseResult ==
  rpc = "done" =>
    /\ ~parseResult.thrown
    /\ parseResult.success => parseResult.hasResponse
    /\ ~parseResult.success =>
         /\ parseResult.code \in VASTErrorCode
         /\ parseResult.message # ""
         /\ ~parseResult.hasResponse
         /\ parseResult.ads = <<>>

C10_Witness ==
  /\ rpc = "done"
  /\ ~parseResult.thrown /\ ~parseResult.success
  /\ parseResult.code = GENERAL_WRAPPER_ERROR
  /\ parseResult.message = "Unknown error"

(***************************************************************************)
(* C11: along every wrapper chain at most maxWrapperDepth documents are     *)
(* fetched, also when every wrapper points to the same tag again, and       *)
(* parse() is pending only while a fetch is outstanding: it has returned as *)
(* soon as every fetch has settled.                                         *)
(***************************************************************************)
C11_Terminates ==
  /\ \A path \in DOMAIN frames :
       Cardinality({k \in 0..Len(path) : frames[SubSeq(path, 1, k)].requests > 0})
         <= parserConfig.maxWrapperDepth
  /\ rpc = "resolving" => Fetching # {}
  /\ rpc = "done" => frames[<<>>].status \in {"resolved", "rejected"}

\* every document of the chain is the same single wrapper, down to the limit
C11_Witness ==
  /\ parserConfig.maxWrapperDepth = MaxDepthBound
  /\ WrapperChain(MaxDepthBound)
  /\ \A k \in 0..(MaxDepthBound - 1) : frames[Ones(k)].ads[1].wrapper = frames[<<>>].ads[1].wrapper
  /\ frames[Ones(MaxDepthBound)].requests = 0
  /\ rpc = "done"

(***************************************************************************)
(* C12: no fetch is outstanding once config.timeout has passed for it, a    *)
(* fetch the timeout aborted has failed its call without a document, and no *)
(* call requests its document more than once.                               *)
(***************************************************************************)
C12_TimeoutCancels ==
  \A path \in DOMAIN frames :
    /\ ~frames[path].overdue
    /\ frames[path].error = ErrorOf("The operation was aborted") /\ ~frames[path].parsed
         => frames[path].status = "rejected"
    /\ frames[path].requests <= 1

(***************************************************************************)
(* C13: between two reset() calls the track calls with once=true deliver    *)
(* each registered (event type, URL) pair at most once, and exactly once if *)
(* track was called with once=true for its type in that interval, whatever  *)
(* other calls are made in between.                                         *)
(***************************************************************************)
C13_OncePerInterval ==
  \A e \in DOMAIN obs.ledger :
    /\ obs.ledger[e] <= 1
    /\ e.event \in obs.tracked => obs.ledger[e] = 1

\* a repeated once=true call delivered nothing: every pair stays at one delivery
C13_Witness ==
  /\ obs.tracked = {"start", "thirdQuartile", "mute"}
  /\ obs.call = [op |-> "track", type |-> "start", once |-> TRUE, args |-> <<>>]
  /\ obs.trace = <<>>
  /\ \A e \in DOMAIN obs.ledger : obs.ledger[e] = 1

(***************************************************************************)
(* C14: a track call with once=false delivers every URL registered for the  *)
(* type, in order and with the macros replaced, whether or not the pair was *)
(* fired before, and leaves the fired-set as it was.                        *)
(***************************************************************************)
\* one delivery for every URL registered for the type, in order, macros replaced
EveryUrlOf(eventType, context) ==
  [i \in DOMAIN EventsOfType(TrackerEvents, eventType) |->
     Effect("pixel", eventType,
            replaceMacros(EventsOfType(TrackerEvents, eventType)[i].url, context))]

C14_NotOnce ==
  [][obs'.call.op = "track" /\ ~obs'.call.once =>
       /\ tracker'.firedEvents = tracker.firedEvents
       /\ obs'.trace = EveryUrlOf(obs'.call.type, tracker.macroContext)]_vars

\* a once=false call has delivered both start URLs although both were fired before
C14_Witness ==
  /\ obs.call = [op |-> "track", type |-> "start", once |-> FALSE, args |-> <<>>]
  /\ Len(obs.trace) = 2
  /\ \A e \in DOMAIN obs.ledger : e.event = "start" => obs.ledger[e] = 1
  /\ Cardinality(tracker.firedEvents) = 2

(***************************************************************************)
(* C15: reset() empties the fired-set, delivers nothing and leaves the      *)
(* macro context and the event mapping unchanged; the track call with       *)
(* once=true that follows it delivers every URL registered for its type.    *)
(***************************************************************************)
C15_Reset ==
  [][/\ obs'.call.op = "reset" =>
          /\ tracker'.firedEvents = {}
          /\ tracker'.macroContext = tracker.macroContext
          /\ tracker'.trackingEvents = tracker.trackingEvents
          /\ obs'.trace = <<>>
     /\ obs.call.op = "reset" /\ obs'.call.op = "track" /\ obs'.call.once =>
          obs'.trace = EveryUrlOf(obs'.call.type, tracker.macroContext)]_vars

\* the third-quartile URL is delivered a second time, after a reset
C15_Witness ==
  /\ obs.call = [op |-> "track", type |-> "thirdQuartile", once |-> TRUE, args |-> <<>>]
  /\ Len(obs.trace) = 1
  /\ tracker.macroContext.adPlayhead = 1
  /\ Delivered("thirdQuartile", obs.trace[1].u) = 2
  /\ obs.tracked = {"thirdQuartile"}

QuartileThresholds == [firstQuartile |-> 25, midpoint |-> 50, thirdQuartile |-> 75]

\* the endpoints of one event type that have received a pixel
DeliveredOfKind(kind) == {k \in DOMAIN obs.pixels : k.kind = kind}

\* the thresholds at or below the percentage of position t
ThresholdsReached(t) ==
  {QuartileThresholds[e] : e \in {x \in DOMAIN QuartileThresholds :
                                    t * 100 >= QuartileThresholds[x] * MediaDuration}}

\* the pixels a position update to t would deliver now, in delivery order
QuartilePixelsAt(t) ==
  SelectSeq(fireQuartileEvents(Begin, t, MediaDuration).obs.trace, LAMBDA x : x.op = "pixel")

(***************************************************************************)
(* C16: within a session, whatever positions the host reports (backwards,   *)
(* repeated, or jumping over thresholds), the thresholds recorded as fired  *)
(* only grow; a position update records exactly the thresholds at or below  *)
(* the reported percentage; the firstQuartile, midpoint and thirdQuartile   *)
(* endpoints have each been delivered exactly once when their threshold is  *)
(* recorded and not at all before; a later threshold is never recorded      *)
(* without the earlier ones, and one update delivers them in that order.    *)
(***************************************************************************)
C16_Quartiles ==
  /\ [](InSession =>
          /\ \A e \in DOMAIN QuartileThresholds :
               IF QuartileThresholds[e] \in quartilesFired
               THEN /\ Cardinality(DeliveredOfKind(e)) = 1
                    /\ \A k \in DeliveredOfKind(e) : obs.pixels[k] = 1
               ELSE DeliveredOfKind(e) = {}
          /\ 75 \in quartilesFired => 50 \in quartilesFired
          /\ 50 \in quartilesFired => 25 \in quartilesFired
          /\ \A t \in 0..MediaDuration : \A i, j \in DOMAIN QuartilePixelsAt(t) :
               i < j => QuartileThresholds[QuartilePixelsAt(t)[i].a]
                          < QuartileThresholds[QuartilePixelsAt(t)[j].a])
  /\ [][obs'.destroys = 0 =>
          /\ quartilesFired \subseteq quartilesFired'
          /\ host'.time # host.time /\ state'.currentTime = host'.time =>
               quartilesFired' = quartilesFired \cup ThresholdsReached(host'.time)]_vars

\* the position jumped from below the first threshold to the end, so that one update
\* delivered all three (the thirdQuartile URL carries the playhead of that update), and
\* the position has gone back to the beginning since
C16_Witness ==
  /\ InSession
  /\ quartilesFired = {25, 50, 75}
  /\ Delivered("thirdQuartile", <<"https://t/q3", "?at=", formatPlayhead(MediaDuration)>>) = 1
  /\ Delivered("firstQuartile", <<"https://t/q1">>) = 1
  /\ Delivered("midpoint", <<"https://t/q2">>) = 1
  /\ state.currentTime = 0
  /\ state.status = Playing

(***************************************************************************)
(* C17: a position update, even one to 100 percent, leaves the status alone *)
(* and delivers no complete pixel and no completion callback; the status    *)
(* becomes Completed, and a complete pixel is delivered, only in a step in  *)
(* which the host reports the natural end; over the whole session every     *)
(* registered complete endpoint has been delivered exactly once as soon as  *)
(* an end has been reported, however often, and not at all before.          *)
(***************************************************************************)
C17_CompleteOnEndOnly ==
  /\ [](\A e \in Registered("complete") :
          Delivered("complete", e.url)
            = IF Count(obs.callbacks, "onComplete") > 0 THEN 1 ELSE 0)
  /\ [][/\ host'.time # host.time /\ state'.currentTime = host'.time =>
             /\ state'.status = state.status
             /\ DeliveredOfKind("complete")' = DeliveredOfKind("complete")
             /\ Count(obs'.callbacks, "onComplete") = Count(obs.callbacks, "onComplete")
        /\ \/ state'.status = Completed /\ state.status # Completed
           \/ DeliveredOfKind("complete")' # DeliveredOfKind("complete")
           \/ Count(obs'.callbacks, "onComplete") # Count(obs.callbacks, "onComplete")
           => host'.ended /\ ~host.ended]_vars

\* the media was played to its end twice (replayed from the keyboard in between): two
\* completion callbacks, one complete pixel
C17_Witness ==
  /\ state.status = Completed
  /\ state.currentTime = MediaDuration
  /\ Count(obs.callbacks, "onComplete") = 2
  /\ Delivered("complete", <<"https://t/complete">>) = 1

\* the skip offset in force for the resolved document: config.skipOffset ?? linear?.skipOffset
OffsetInForce ==
  IF cfg.skipOffset # Undefined THEN cfg.skipOffset
  ELSE getFirstLinearCreative(obs.parsed.ads).skipOffset

\* a position update with at least s seconds elapsed has been observed; the quartile
\* pixel whose threshold is s seconds of the media is the lasting record of it
ObservedAtLeast(s) ==
  \E e \in DOMAIN QuartileThresholds :
    /\ QuartileThresholds[e] * MediaDuration = s * 100
    /\ DeliveredOfKind(e) # {}

SkipAvailable == OffsetInForce > 0 /\ ObservedAtLeast(OffsetInForce)

\* the step delivered a skip pixel, emitted skip or invoked onSkip
SkipActed ==
  \/ DeliveredOfKind("skip")' # DeliveredOfKind("skip")
  \/ \E k \in DeliveredOfKind("skip") : obs'.pixels[k] # obs.pixels[k]
  \/ Count(obs'.callbacks, "onSkip") # Count(obs.callbacks, "onSkip")
  \/ \E l \in Listeners : Count(obs'.heard, <<l, "skip">>) # Count(obs.heard, <<l, "skip">>)

(***************************************************************************)
(* C18: unless a skip offset greater than 0 is in force (the configured     *)
(* override when given, otherwise the creative's own) and a position update *)
(* with at least that much elapsed time has been observed, a call of skip() *)
(* changes nothing: no pixel, no event, no callback, nothing removed; and   *)
(* every step that does deliver a skip pixel, emit skip or invoke onSkip is *)
(* taken with such an offset in force and such an update observed.          *)
(***************************************************************************)
C18_SkipGuard ==
  /\ [](~SkipAvailable => skip(Begin) = Begin)
  /\ [][SkipActed => SkipAvailable]_vars

\* the override of 1 second beat the creative's 2 seconds: the ad was skipped at second 1,
\* before the midpoint
C18_Witness ==
  /\ cfg.skipOffset = 1
  /\ getFirstLinearCreative(obs.parsed.ads).skipOffset = 2
  /\ state.currentTime = 1
  /\ Count(obs.callbacks, "onSkip") = 1
  /\ Delivered("skip", <<"https://t/skip">>) = 1
  /\ DeliveredOfKind("midpoint") = {}
  /\ obs.destroys = 1

\* destroy() ran in the step (its record is kept until the next handler starts)
DestroyRan == \E i \in DOMAIN obs'.trace : obs'.trace[i] = Effect("emit", "destroy", <<>>)

(***************************************************************************)
(* C19: in every state, destroy() leaves nothing of the player in the host  *)
(* (no playback surface, start overlay, skip affordance, focus trap or key  *)
(* listener) and an empty listener registry, and a second destroy() right   *)
(* after it changes nothing; every step in which destroy() ran ends in such *)
(* a state.                                                                 *)
(***************************************************************************)
C19_DestroyReleasesAll ==
  /\ [](/\ destroy(Begin).container = EmptyContainer
        /\ destroy(Begin).elems = NoElements
        /\ destroy(Begin).listeners = {}
        /\ [destroy(destroy(Begin)) EXCEPT !.obs = destroy(Begin).obs] = destroy(Begin)
        /\ destroy(destroy(Begin)).obs.pixels = destroy(Begin).obs.pixels)
  /\ [][DestroyRan => container' = EmptyContainer /\ elems' = NoElements /\ listeners' = {}]_vars

(***************************************************************************)
(* C20: when destroy() has just run while init() was suspended on the       *)
(* resolution of the document, the step in which init() resumes creates no  *)
(* playback surface and no other element in the host, registers no key      *)
(* listener, calls play() on nothing and delivers no pixel.                 *)
(***************************************************************************)
C20_DestroyDuringInit ==
  [][/\ pc = "parsing" /\ pc' # "parsing"
     /\ \E i \in DOMAIN obs.trace : obs.trace[i] = Effect("emit", "destroy", <<>>)
     => /\ container' = EmptyContainer
        /\ elems' = NoElements
        /\ ~host'.exists /\ host'.pending = <<>>
        /\ obs'.pixels = obs.pixels]_vars

(***************************************************************************)
(* C21: with a listener that throws on every call registered ahead of       *)
(* another one, every registered listener has received each counted event   *)
(* as often as the throwing one, and as often as the callback belonging to  *)
(* that event was invoked; once the listeners have received start, every    *)
(* registered start endpoint has been delivered.                            *)
(***************************************************************************)
C21_ListenerThrows ==
  \A l \in listeners :
    /\ \A t \in CountedOverSession, thrower \in Throwing \cap listeners :
         Count(obs.heard, <<l, t>>) = Count(obs.heard, <<thrower, t>>)
    /\ \A t \in {"start", "complete", "skip", "error"} :
         Count(obs.heard, <<l, t>>)
           = Count(obs.callbacks, CASE t = "start" -> "onStart"
                                    [] t = "complete" -> "onComplete"
                                    [] t = "skip" -> "onSkip"
                                    [] t = "error" -> "onError")
    /\ Count(obs.heard, <<l, "start">>) > 0 =>
         \A e \in Registered("start") : Delivered("start", e.url) >= 1

\* the throwing listener and the one registered after it have both received complete,
\* and the completion callback and pixel are there
C21_Witness ==
  /\ listeners = {"L1", "L2"}
  /\ "L1" \in Throwing /\ ListenerOrder = <<"L1", "L2">>
  /\ Count(obs.heard, <<"L1", "complete">>) = 1
  /\ Count(obs.heard, <<"L2", "complete">>) = 1
  /\ Count(obs.callbacks, "onComplete") = 1
  /\ Delivered("complete", <<"https://t/complete">>) = 1
  /\ state.status = Completed

(***************************************************************************)
(* C22: for a non-empty list of media files with at least one file of       *)
(* height at most 1080, and any target bitrate, selectBestMediaFile returns *)
(* a file of height at most 1080.                                           *)
(***************************************************************************)
C22_PrefersUpTo1080 ==
  fnCall.fn = "selectBestMediaFile" =>
    LET mediaFiles == fnCall.args[1]
    IN  (\E i \in DOMAIN mediaFiles : mediaFiles[i].height <= 1080) =>
          fnCall.result.height <= 1080

(***************************************************************************)
(* C23: selectBestMediaFile returns none exactly for the empty list;        *)
(* otherwise the candidates are the MP4 files if there are any and all      *)
(* files if not, and the result is the candidate of minimum score           *)
(* abs(bitrate or 0 - target) + (10000 if height > 1080), the earliest such *)
(* candidate in input order.                                                *)
(***************************************************************************)
C23_MinimumScore ==
  fnCall.fn = "selectBestMediaFile" =>
    LET mediaFiles == fnCall.args[1]
        target == fnCall.args[2]
        score(mf) == (IF mf.bitrate = Undefined THEN target
                      ELSE IF mf.bitrate >= target THEN mf.bitrate - target
                      ELSE target - mf.bitrate)
                     + (IF mf.height > 1080 THEN 10000 ELSE 0)
        anyMp4 == \E i \in DOMAIN mediaFiles : mediaFiles[i].type = "video/mp4"
        candidate(i) == anyMp4 => mediaFiles[i].type = "video/mp4"
    IN  /\ fnCall.result = NoMediaFile <=> mediaFiles = <<>>
        /\ mediaFiles # <<>> =>
             \E i \in DOMAIN mediaFiles :
               /\ candidate(i)
               /\ fnCall.result = mediaFiles[i]
               /\ \A j \in DOMAIN mediaFiles :
                    candidate(j) =>
                      \/ score(mediaFiles[i]) < score(mediaFiles[j])
                      \/ score(mediaFiles[i]) = score(mediaFiles[j])
                           /\ (j < i => mediaFiles[j] = mediaFiles[i])

\* two files of equal score and different heights, neither MP4: the first one is returned
C23_Witness ==
  /\ fnCall.fn = "selectBestMediaFile"
  /\ Len(fnCall.args[1]) = 2
  /\ fnCall.args[1][1].height = 1080 /\ fnCall.args[1][2].height = 720
  /\ fnCall.args[1][1].bitrate = Undefined /\ fnCall.args[1][2].bitrate = Undefined
  /\ fnCall.args[1][1].type = "video/webm" /\ fnCall.args[1][2].type = "video/webm"
  /\ fnCall.result = fnCall.args[1][1]

\* the context field a conditional macro token stands for
MacroField ==
  [x \in {"[ASSETURI]", "[CONTENTPLAYHEAD]", "[ADPLAYHEAD]", "[ERRORCODE]",
          "[BREAKPOSITION]", "[ADTYPE]"} |->
     CASE x = "[ASSETURI]" -> "assetUri"
       [] x = "[CONTENTPLAYHEAD]" -> "contentPlayhead"
       [] x = "[ADPLAYHEAD]" -> "adPlayhead"
       [] x = "[ERRORCODE]" -> "errorCode"
       [] x = "[BREAKPOSITION]" -> "breakPosition"
       [] x = "[ADTYPE]" -> "adType"]

\* the field is present in the context (whatever its value)
Present(context, field) ==
  IF field \in {"assetUri", "adType"} THEN context[field] # Absent
  ELSE context[field] # Undefined

(***************************************************************************)
(* C24: in the output of replaceMacros, a conditional macro token of the    *)
(* URL has been replaced exactly when its context field is present and is   *)
(* there literally when the field is absent; [TIMESTAMP] and [CACHEBUSTING] *)
(* have been replaced at every occurrence.                                  *)
(***************************************************************************)
C24_ConditionalMacros ==
  fnCall.fn = "replaceMacros" =>
    LET url == fnCall.args[1]
        context == fnCall.args[2]
    IN  \A i \in DOMAIN url :
          /\ url[i] \in DOMAIN MacroField =>
               (fnCall.result[i] # url[i] <=> Present(context, MacroField[url[i]]))
          /\ url[i] \in {"[TIMESTAMP]", "[CACHEBUSTING]"} => fnCall.result[i] # url[i]

(***************************************************************************)
(* C24, with presence read as the code reads it: [ASSETURI] and [ADTYPE]    *)
(* are replaced exactly when their field is present and not the empty       *)
(* string, the four numeric macros exactly when their field is present      *)
(* (0 included), [TIMESTAMP] and [CACHEBUSTING] always.                     *)
(***************************************************************************)
C24_TruthyStrings ==
  fnCall.fn = "replaceMacros" =>
    LET url == fnCall.args[1]
        context == fnCall.args[2]
    IN  \A i \in DOMAIN url :
          /\ url[i] \in DOMAIN MacroField =>
               (fnCall.result[i] # url[i]
                  <=> /\ Present(context, MacroField[url[i]])
                      /\ MacroField[url[i]] \in {"assetUri", "adType"} =>
                           context[MacroField[url[i]]] # "")
          /\ url[i] \in {"[TIMESTAMP]", "[CACHEBUSTING]"} => fnCall.result[i] # url[i]

\* [ASSETURI] stayed although assetUri is present (empty), while [ERRORCODE] next to it
\* was replaced for an error code of 0
C24_Witness ==
  /\ fnCall.fn = "replaceMacros"
  /\ fnCall.args[1] = <<"[ASSETURI]", "[ERRORCODE]">>
  /\ fnCall.args[2].assetUri = ""
  /\ fnCall.args[2].errorCode = 0
  /\ fnCall.result = <<"[ASSETURI]", "0">>

\* the last width digits of n, high to low
RECURSIVE DigitsOf(_, _)
DigitsOf(n, width) ==
  IF width = 0 THEN "" ELSE DigitsOf(n \div 10, width - 1) \o ToString(n % 10)

\* HH:MM:SS.mmm for whole + micros / 1000000 seconds: each field the floor of its
\* quantity, in exactly 2, 2, 2 and 3 digits
FlooredFields(whole, micros) ==
  DigitsOf(whole \div 3600, 2) \o ":" \o DigitsOf((whole \div 60) % 60, 2) \o ":"
    \o DigitsOf(whole % 60, 2) \o "." \o DigitsOf(micros \div 1000, 3)

C26_ResumeEmitted ==
  [][/\ state.status = Paused
     /\ host.exists /\ host.paused /\ ~host'.paused
     /\ obs'.destroys = obs.destroys
     => /\ state'.status = Playing
        /\ \A l \in listeners :
             Count(obs'.heard, <<l, "resume">>) > Count(obs.heard, <<l, "resume">>)]_vars

(***************************************************************************)
(* C27: in a step in which the video element reports an error while the     *)
(* status is neither Completed nor Error, the status becomes Error, the     *)
(* recorded error carries the media-not-supported code 403, and the error   *)
(* callback is invoked.                                                     *)
(***************************************************************************)
C27_PlaybackError ==
  [][/\ host.exists /\ ~host.error /\ host'.error
     /\ state.status \notin {Completed, Error}
     => /\ state'.status = Error
        /\ state'.error.code = 403
        /\ \E i \in DOMAIN obs'.trace : obs'.trace[i] = Effect("callback", "onError", <<>>)]_vars

\* the error arrived during playback, after the first quartile
C27_Witness ==
  /\ host.error
  /\ state.status = Error
  /\ state.error = createError(MEDIA_NOT_SUPPORTED, "Video playback error")
  /\ Count(obs.callbacks, "onError") = 1
  /\ 25 \in quartilesFired
  /\ \E i \in DOMAIN obs.trace : obs.trace[i] = Effect("callback", "onError", <<>>)

(***************************************************************************)
(* C28: a firePixel call delivers through exactly one transport, the first  *)
(* of: the beacon if it is advertised and reports success, else the         *)
(* keep-alive GET if it is advertised, else the 1x1 image; the only         *)
(* transport called before it is a beacon that reported failure.            *)
(***************************************************************************)
\* the transport the stated order selects on a platform
ChosenTransport(p) ==
  IF p.capabilities.sendBeacon /\ p.sendBeacon = "true" THEN "sendBeacon"
  ELSE IF p.capabilities.fetchKeepalive THEN "fetch"
  ELSE "image"

C28_OneMechanismInOrder ==
  [][obs'.call.op = "firePixel" /\ platform' = platform =>
       /\ obs'.sent # <<>>
       /\ obs'.sent[Len(obs'.sent)].via = ChosenTransport(platform)
       /\ \A i \in 1..(Len(obs'.sent) - 1) :
            obs'.sent[i] = Sent("sendBeacon", obs'.call.args[1], "false")]_vars

(***************************************************************************)
(* C29: whatever the transports do, a call of firePixel, track,             *)
(* fireImpressions or fireError raises nothing to its caller, leaves the    *)
(* player state as it was and invokes no callback.                          *)
(***************************************************************************)
C29_FailuresContained ==
  [][/\ obs'.call.op \in {"firePixel", "track", "fireImpressions", "fireError"}
     /\ platform' = platform
     => /\ ~obs'.raised
        /\ state' = state
        /\ obs'.callbacks = obs.callbacks]_vars

\* an error report whose beacon reported failure and whose background GET was rejected
C29_Witness ==
  /\ obs.call.op = "fireError"
  /\ \E i \in DOMAIN obs.sent : obs.sent[i].via = "sendBeacon" /\ obs.sent[i].did = "false"
  /\ \E i \in DOMAIN obs.sent : obs.sent[i].via = "fetch" /\ obs.sent[i].did = "rejects"
  /\ ~obs.raised
  /\ state = InitialState

(***************************************************************************)
(* C30: every fireImpressions and fireError call hands every URL it is      *)
(* given to firePixel, in order and with the macros replaced (the error     *)
(* code included for fireError), whatever the fired-set holds, and leaves   *)
(* the fired-set and the tracker's macro context as they were.              *)
(***************************************************************************)
\* one delivery per given URL, in order, macros replaced
UrlsDelivered(kind, urls, context) ==
  [i \in DOMAIN urls |-> Effect("pixel", kind, replaceMacros(urls[i], context))]

C30_FireAllEveryCall ==
  [][platform' = platform =>
       /\ obs'.call.op = "fireImpressions" =>
            /\ obs'.trace = UrlsDelivered("impression", obs'.call.args[1],
                                          tracker.macroContext)
            /\ tracker' = tracker
       /\ obs'.call.op = "fireError" =>
            /\ obs'.trace =
                 UrlsDelivered("error", obs'.call.args[1],
                               [tracker.macroContext EXCEPT !.errorCode = obs'.call.args[2]])
            /\ \A i \in DOMAIN obs'.trace :
                 \E j \in DOMAIN obs'.sent : obs'.sent[j].url = obs'.trace[i].u
            /\ tracker' = tracker]_vars

\* the same error URL given twice is delivered twice with the code in it, although
\* the fired-set is not empty, and the context holds no error code afterwards
C30_Witness ==
  /\ obs.call.op = "fireError"
  /\ obs.call.args = << <<ErrorUrl, ErrorUrl>>, MEDIA_NOT_SUPPORTED >>
  /\ Len(obs.trace) = 2
  /\ obs.trace[1] = obs.trace[2]
  /\ obs.trace[1].u # ErrorUrl
  /\ tracker.firedEvents # {}
  /\ tracker.macroContext.errorCode = Undefined

(***************************************************************************)
(* C31: the status becomes Paused and the pause pixel is delivered only in  *)
(* a step in which the host paused the element, and never in the step in    *)
(* which the media reaches its natural end.                                 *)
(***************************************************************************)
PausePixel == [kind |-> "pause", url |-> <<"https://t/pause">>]

C31_PauseOnlyOnUserPause ==
  [][\/ state'.status = Paused /\ state.status # Paused
     \/ Count(obs'.pixels, PausePixel) # Count(obs.pixels, PausePixel)
     => /\ host'.paused
        /\ ~(host'.ended /\ ~host.ended)]_vars

(***************************************************************************)
(* C32: when the autoplay start succeeds, the status is Ready at the moment *)
(* the start is handled and becomes Playing there, and while the autoplay   *)
(* start is under way or done the status never goes from Playing back to    *)
(* Ready or Loading.                                                        *)
(***************************************************************************)
\* the host accepted the autoplay play() call and has not failed it, or it has resolved
AutoplayUnderWay ==
  \/ obs.autoplay = "resolved"
  \/ \E i \in DOMAIN host.pending : host.pending[i] = [tag |-> "autoplay", ok |-> TRUE]

C32_ReadyBeforePlaying ==
  [][/\ obs.autoplay = "pending" /\ obs'.autoplay = "resolved"
          => state.status = Ready /\ state'.status = Playing
     /\ AutoplayUnderWay /\ state.status = Playing
          => state'.status \notin {Ready, Loading}]_vars

(***************************************************************************)
(* C33: mergeWrapperTracking prepends the tracking events of all the        *)
(* wrapper's Linear creatives to the tracking events of the nested Ad's     *)
(* first Linear creative, and returns every other creative of the nested    *)
(* Ad as it was.                                                            *)
(***************************************************************************)
\* positions of the Linear creatives of an Ad
LinearsOf(ad) == {i \in DOMAIN ad.creatives : ad.creatives[i].isLinear}

C33_FirstLinearOnly ==
  fnCall.fn = "mergeWrapperTracking" =>
    LET wrapper == fnCall.args[1]
        nested == fnCall.args[2]
        merged == fnCall.result
    IN  /\ DOMAIN merged.creatives = DOMAIN nested.creatives
        /\ \A i \in DOMAIN nested.creatives :
             merged.creatives[i] =
               IF i \in LinearsOf(nested) /\ \A j \in LinearsOf(nested) : i <= j
               THEN [nested.creatives[i] EXCEPT
                       !.trackingEvents = getWrapperTrackingEvents(wrapper) \o @]
               ELSE nested.creatives[i]

(***************************************************************************)
(* C34: every Ad of a successful result carries, as impressions, as error   *)
(* URLs and as tracking events of its Linear creative, those of every       *)
(* wrapper above it, outermost first, followed by its own: nothing of the   *)
(* chain is lost or reordered.                                              *)
(***************************************************************************)
\* the documents' Ads are named by their position, so the Ads above the Ad at a
\* position are named by the position's prefixes, outermost first
ChainAbove(id) == [k \in 1..Len(id) |-> SubSeq(id, 1, k)]

C35_ChainSequential ==
  \A path \in DOMAIN frames :
    path # <<>> /\ frames[path].requests > 0 =>
      /\ frames[Front(path)].parsed
      /\ frames[Front(path)].status # "fetching"

\* the documents below two sibling wrappers are both outstanding
C35_Witness ==
  /\ {<<>>, <<1>>, <<2>>} \subseteq DOMAIN frames
  /\ frames[<<>>].parsed
  /\ frames[<<1>>].status = "fetching" /\ frames[<<2>>].status = "fetching"
  /\ rpc = "resolving"

(***************************************************************************)
(* C36: on every position update with a skip offset in force and the skip   *)
(* button shown, the countdown becomes max(0, offset - elapsed) and is not  *)
(* negative; canSkip becomes true only in a position update that leaves the *)
(* countdown at 0, and once true it never becomes false again.              *)
(***************************************************************************)
\* the step is a position update of the playing media
PositionUpdate == Advancing(host) /\ host'.time # host.time

Destroyed == obs.destroys > 0 /\ host.exists /\ elems = NoElements

C38_SilentAfterDestroy ==
  /\ [](\A k \in DOMAIN obs.pixels :
          k.kind \in {"skip", "firstQuartile", "midpoint", "thirdQuartile"}
            => obs.pixels[k] <= 1)
  /\ [][Destroyed => obs'.pixels = obs.pixels /\ obs'.callbacks = obs.callbacks]_vars

(***************************************************************************)
(* C39: the Ads of a successful result are those of the first document in   *)
(* document order, each wrapper replaced in place by the Ads of its nested  *)
(* document, whatever the order in which the fetches completed.             *)
(***************************************************************************)
\* the inline Ads below a position, in document order; a wrapper whose nested
\* resolution failed contributes nothing
RECURSIVE InDocumentOrder(_)
InDocumentOrder(path) ==
  IF path \notin DOMAIN frames \/ frames[path].status # "resolved" THEN <<>>
  ELSE Flatten([i \in DOMAIN frames[path].ads |->
                  IF IsWrapperAd(frames[path].ads[i])
                  THEN InDocumentOrder(path \o <<i>>)
                  ELSE << path \o <<i>> >>])

C39_DocumentOrder ==
  rpc = "done" /\ parseResult.success =>
    [i \in DOMAIN parseResult.ads |-> parseResult.ads[i].id] = InDocumentOrder(<<>>)

\* two sibling wrappers, each replaced in place by the Ad of its nested document
C39_Witness ==
  /\ rpc = "done" /\ parseResult.success
  /\ [i \in DOMAIN parseResult.ads |-> parseResult.ads[i].id] = << <<1, 1>>, <<2, 1>> >>

\* C40: no Ad of a successful resolve result is a wrapper with a target URI: every
\* such wrapper met at any depth has been replaced by the Ads of its nested document
\* or, when its failure was tolerated, by nothing
C40_NoWrapperLeft ==
  rpc = "done" /\ parseResult.success =>
    /\ \A i \in DOMAIN parseResult.ads : ~IsWrapperAd(parseResult.ads[i])
    /\ \A path \in DOMAIN frames : \A i \in DOMAIN frames[path].ads :
         frames[path].parsed /\ IsWrapperAd(frames[path].ads[i]) =>
           \A j \in DOMAIN parseResult.ads : parseResult.ads[j].id # path \o <<i>>

\* a document of two wrappers: the first one replaced by the Ad of its nested
\* document, the second one, whose nested document failed, by nothing
C40_Witness ==
  /\ rpc = "done" /\ parseResult.success
  /\ {<<>>, <<1>>, <<2>>} \subseteq DOMAIN frames
  /\ IsWrapperAd(frames[<<>>].ads[1]) /\ IsWrapperAd(frames[<<>>].ads[2])
  /\ frames[<<1>>].status = "resolved"
  /\ frames[<<2>>].status = "rejected"
  /\ [i \in DOMAIN parseResult.ads |-> parseResult.ads[i].id] = << <<1, 1>> >>

====
